---- MODULE Spec2Model ----
(***************************************************************************)
(* Adaptive traffic-signal controller: the decision core of                *)
(* dashboard/test_sumo.py (run_enhanced_dqn_simulation and the functions   *)
(* it calls) and the experience store of dashboard/dqn_model.py.           *)
(*                                                                         *)
(* Numbers.  A feature of the state vector (a float in the code) is an     *)
(* integer number of thousandths: 0.05 is 50, 0.1 is 100, 1.0 is 1000.     *)
(* A reward is an integer number of 1/2000: 2.0 is 4000 (the speed term    *)
(* is mean(4 speeds) * 2 = sum / 2, so halves of thousandths occur).       *)
(* Durations and simulation time are whole seconds.  Python index i of a   *)
(* list is index i + 1 of the sequence that models it; actions stay 0..3.  *)
(***************************************************************************)
EXTENDS Integers, Sequences, FiniteSets, TLC

VARIABLES
    \* ---- run_enhanced_dqn_simulation: locals of the loop
    pc,                  \* "loop": the while loop runs; "closed": the loop
                         \* is left and finally is entered; "saved",
                         \* "returned", "raised": the function is left
    step,                \* tick counter
    current_time,        \* traci.simulation.getTime() of the last tick
    current_phase_start, \* phase record: start time
    current_action,      \* phase record: action, NoAction while None
    current_duration,    \* phase record: committed duration
    actual_duration,     \* local bound inside the try, Unbound before
    prev_state,          \* state captured at the last switch, <<>> while None
    state,               \* state vector of the last tick
    episode_rewards,     \* rewards of the ended phases
    congestion_levels,   \* congestion tracked every 100 steps
    \* ---- EnhancedDQNAgent
    memory,              \* deque(maxlen=10000)
    priority_memory,     \* deque(maxlen=1000)
    performance_history, \* deque(maxlen=100)
    congestion_history,  \* deque(maxlen=100)
    train_steps,         \* completed training steps (versions of the parameters)
    epsilon,             \* exploration rate, in 1e-9
    \* ---- DQNAgent (the module-level agent of run_dqn_simulation)
    base_memory,         \* deque(maxlen=2000)
    base_train_steps,    \* completed training steps
    base_epsilon,        \* exploration rate, in 1e-9
    \* ---- actuator (traci.trafficlight)
    tls_state,           \* last pattern accepted by setRedYellowGreenState
    tls_duration,        \* last value accepted by setPhaseDuration
    \* ---- what the last tick did (observation of the step just taken)
    tick,                \* record describing the last tick, see NoTick
    \* ---- direct calls of the pure functions and of the store
    call,                \* inputs of the call
    ret,                 \* its result, NoRet before the call
    appended,            \* every record handed to the store, in order
    \* ---- run_dqn_simulation: locals shared with compute_next_action
    hold_timer,          \* in ticks of 0.1 s
    next_action,         \* written by compute_next_action, NoAction while None
    action_ready,        \* written by compute_next_action and by the loop
    threads,             \* the compute_next_action threads that still run
    base_reward,         \* local reward of the loop
    \* ---- dashboard/main.py: globals of the server
    sumo_running,        \* the flag of lines 54, 64 and 103
    traffic_light_manual_mode,
    manual_traffic_states, \* <<>> while empty, else the pattern of main_tl
    connected,           \* whether the traci connection is open
    sim_threads,         \* position of every start_sumo thread
    stopped              \* POST /api/stop returned since the last accepted
                         \* POST /api/start (observation)

loopVars  == <<pc, step, current_time, current_phase_start, current_action,
               current_duration, actual_duration, prev_state, state,
               episode_rewards, congestion_levels>>
agentVars == <<memory, priority_memory, performance_history,
               congestion_history, train_steps, epsilon, base_memory,
               base_train_steps, base_epsilon>>
tlsVars   == <<tls_state, tls_duration>>
callVars  == <<call, ret, appended>>
dqnVars   == <<hold_timer, next_action, action_ready, threads, base_reward>>
apiVars   == <<sumo_running, traffic_light_manual_mode,
               manual_traffic_states, connected, sim_threads, stopped>>
vars      == <<loopVars, agentVars, tlsVars, tick, callVars, dqnVars,
               apiVars>>

\* ------------------------------------------------------------- constants
MINIMUM_GREEN_TIME == 10
MAXIMUM_GREEN_TIME == 45
DEFAULT_GREEN_TIME == 15
\* <step-length value="1"/>: getTime() grows by one second per simulationStep
StepLength == 1

NoAction == -1
Unbound  == -1
Actions  == 0 .. 3

action_to_phase(a) ==
    CASE a = 0 -> "GGGrrrrrrrrr"
      [] a = 1 -> "rrrrrrGGGrrr"
      [] a = 2 -> "rrrGGGrrrrrr"
      [] a = 3 -> "rrrrrrrrrGGG"

\* ------------------------------------------------------ small helpers
Max(a, b) == IF a >= b THEN a ELSE b
Min(a, b) == IF a <= b THEN a ELSE b
Abs(a)    == IF a >= 0 THEN a ELSE -a
\* Python int() of a non-negative product b * n / 10
IntTenths(b, n) == (b * n) \div 10

Sum4(v) == v[1] + v[2] + v[3] + v[4]

\* np.argmax: the first index holding the maximum
argmax(v) ==
    CHOOSE i \in Actions :
        /\ \A j \in Actions : v[j + 1] <= v[i + 1]
        /\ \A j \in Actions : j < i => v[j + 1] < v[i + 1]

\* The per-direction lists the functions slice out of a 12-feature state
\* [N_count, N_cong, N_speed, S_..., E_..., W_...]
TrafficOf(s)    == <<s[1], s[4], s[7], s[10]>>
CongestionOf(s) == <<s[2], s[5], s[8], s[11]>>
SpeedsOf(s)     == <<s[3], s[6], s[9], s[12]>>

\* -------------------------------------------------- Action Validator
\* thresholds of validate_action_choice, in thousandths
ACCEPT_TRAFFIC      == 50
ACCEPT_CONGESTION   == 100
OVERRIDE_TRAFFIC    == 50
OVERRIDE_CONGESTION == 100

\* a validator that lets every proposal through
validate_action_choice_accept_all(dqn_action, traffic, congestion) ==
    dqn_action

validate_action_choice(dqn_action, traffic, congestion) ==
    LET chosen_traffic     == traffic[dqn_action + 1]
        chosen_congestion  == congestion[dqn_action + 1]
        max_traffic_idx    == argmax(traffic)
        max_congestion_idx == argmax(congestion)
    IN  IF chosen_traffic > ACCEPT_TRAFFIC
           \/ chosen_congestion > ACCEPT_CONGESTION
        THEN dqn_action
        ELSE IF traffic[max_traffic_idx + 1] > OVERRIDE_TRAFFIC
        THEN max_traffic_idx
        ELSE IF congestion[max_congestion_idx + 1] > OVERRIDE_CONGESTION
        THEN max_congestion_idx
        ELSE dqn_action

\* ------------------------------------------------ Duration Scheduler
\* the scheduler with its last line ("Ensure bounds") left out
calculate_adaptive_duration_no_clamp(action, traffic, congestion, speeds, min_time, max_time, default_time) ==
    LET direction_traffic    == traffic[action + 1]
        direction_congestion == congestion[action + 1]
        direction_speed      == speeds[action + 1]
        base_duration ==
            IF direction_traffic > 700 \/ direction_congestion > 600
            THEN max_time
            ELSE IF direction_traffic > 300 \/ direction_congestion > 300
            THEN (min_time + max_time) \div 2
            ELSE IF direction_traffic > 50
            THEN default_time
            ELSE min_time
    IN  IF direction_speed > 700
        THEN Max(min_time, IntTenths(base_duration, 8))
        ELSE IF direction_speed < 300 /\ direction_traffic > 100
        THEN Min(max_time, IntTenths(base_duration, 12))
        ELSE base_duration

\* calculate_adaptive_duration testing the medium bucket before the high one
calculate_adaptive_duration_medium_first(action, traffic, congestion, speeds, min_time, max_time, default_time) ==
    LET direction_traffic    == traffic[action + 1]
        direction_congestion == congestion[action + 1]
        direction_speed      == speeds[action + 1]
        base_duration ==
            IF direction_traffic > 300 \/ direction_congestion > 300
            THEN (min_time + max_time) \div 2
            ELSE IF direction_traffic > 700 \/ direction_congestion > 600
            THEN max_time
            ELSE IF direction_traffic > 50
            THEN default_time
            ELSE min_time
        adjusted ==
            IF direction_speed > 700
            THEN Max(min_time, IntTenths(base_duration, 8))
            ELSE IF direction_speed < 300 /\ direction_traffic > 100
            THEN Min(max_time, IntTenths(base_duration, 12))
            ELSE base_duration
    IN  Max(min_time, Min(adjusted, max_time))

\* the base duration of lines 579-594, before the speed adjustment
bucket_duration(direction_traffic, direction_congestion, min_time, max_time, default_time) ==
    IF direction_traffic > 700 \/ direction_congestion > 600
    THEN max_time
    ELSE IF direction_traffic > 300 \/ direction_congestion > 300
    THEN (min_time + max_time) \div 2
    ELSE IF direction_traffic > 50
    THEN default_time
    ELSE min_time

calculate_adaptive_duration(action, traffic, congestion, speeds, min_time, max_time, default_time) ==
    LET direction_traffic    == traffic[action + 1]
        direction_congestion == congestion[action + 1]
        direction_speed      == speeds[action + 1]
        base_duration ==
            IF direction_traffic > 700 \/ direction_congestion > 600
            THEN max_time
            ELSE IF direction_traffic > 300 \/ direction_congestion > 300
            THEN (min_time + max_time) \div 2
            ELSE IF direction_traffic > 50
            THEN default_time
            ELSE min_time
        adjusted ==
            IF direction_speed > 700
            THEN Max(min_time, IntTenths(base_duration, 8))
            ELSE IF direction_speed < 300 /\ direction_traffic > 100
            THEN Min(max_time, IntTenths(base_duration, 12))
            ELSE base_duration
    IN  Max(min_time, Min(adjusted, max_time))

\* choose_intelligent_action_and_duration, given what agent.act returned
choose_intelligent_action_and_duration(dqn_action, s, min_time, max_time, default_time) ==
    LET direction_traffic    == TrafficOf(s)
        direction_congestion == CongestionOf(s)
        direction_speeds     == SpeedsOf(s)
        chosen_action == validate_action_choice(dqn_action, direction_traffic,
                                                direction_congestion)
        duration == calculate_adaptive_duration(chosen_action,
                        direction_traffic, direction_congestion,
                        direction_speeds, min_time, max_time, default_time)
    IN  <<chosen_action, duration>>

\* apply_intelligent_action: the pattern that is sent for `action`
apply_intelligent_action(action, s) ==
    LET direction_traffic    == TrafficOf(s)
        direction_congestion == CongestionOf(s)
        max_traffic_dir      == argmax(direction_traffic)
    IN  IF direction_traffic[action + 1] > 100
           \/ direction_congestion[action + 1] > 200
        THEN action_to_phase(action)
        ELSE IF direction_traffic[max_traffic_dir + 1] > 50
        THEN action_to_phase(max_traffic_dir)
        ELSE action_to_phase(action)

\* --------------------------------------------------- Reward Evaluator
\* the clearance term with its sign turned
clearance_reward_reversed(prev, curr) ==
    (Sum4(TrafficOf(curr)) - Sum4(TrafficOf(prev))) * 5 * 2

clearance_reward(prev, curr) ==
    (Sum4(TrafficOf(prev)) - Sum4(TrafficOf(curr))) * 5 * 2

congestion_reward(prev, curr) ==
    (Sum4(CongestionOf(prev)) - Sum4(CongestionOf(curr))) * 3 * 2

efficiency_reward(curr, action) ==
    LET chosen_direction_traffic    == TrafficOf(curr)[action + 1]
        chosen_direction_congestion == CongestionOf(curr)[action + 1]
    IN  IF chosen_direction_traffic > 100 \/ chosen_direction_congestion > 200
        THEN 4000
        ELSE IF chosen_direction_traffic > 50
        THEN 2000
        ELSE -2000

\* np.mean(curr_speeds) * 2.0 = sum / 4 * 2, in 1/2000: the sum itself
speed_reward(curr) == Sum4(SpeedsOf(curr))

congestion_penalty(curr) == -(Sum4(CongestionOf(curr)) * 2 * 2)

\* the reward with a sixth, unreported term
calculate_smart_reward_extra_term(prev, curr, action) ==
    clearance_reward(prev, curr) + congestion_reward(prev, curr)
        + efficiency_reward(curr, action) + speed_reward(curr)
        + congestion_penalty(curr)
        + (IF action = 0 THEN 10000 ELSE 0)

calculate_smart_reward(prev, curr, action) ==
    clearance_reward(prev, curr) + congestion_reward(prev, curr)
        + efficiency_reward(curr, action) + speed_reward(curr)
        + congestion_penalty(curr)

\* --------------------------------------------------- Experience Store
\* Capacities of the deques.  The code's 10000, 1000, 2000 and 100 are far
\* beyond what can be enumerated; the store is checked with these small
\* capacities, which every append sequence longer than them overflows.
MemoryMaxLen   == 3    \* stands for deque(maxlen=10000), EnhancedDQNAgent
PriorityMaxLen == 2    \* stands for deque(maxlen=1000)
BaseMaxLen     == 2    \* stands for deque(maxlen=2000), DQNAgent
HistoryMaxLen  == 3    \* stands for deque(maxlen=100)

\* abs(reward) > 2.0, in 1/2000
PRIORITY_THRESHOLD == 4000

\* a deque that refuses the new record when it is full
DequeAppend_drop_newest(q, x, maxlen) ==
    IF Len(q) < maxlen THEN Append(q, x) ELSE q

\* collections.deque(maxlen=...).append
DequeAppend(q, x, maxlen) ==
    IF Len(q) < maxlen THEN Append(q, x) ELSE Append(Tail(q), x)

Experience(s, a, r, ns, d) ==
    [state |-> s, action |-> a, reward |-> r, next_state |-> ns, done |-> d]

\* DQNAgent.remember on a memory of the given maxlen
remember(mem, s, a, r, ns, d, maxlen) ==
    DequeAppend(mem, Experience(s, a, r, ns, d), maxlen)

\* remember_priority with >= in place of >
remember_priority_at_threshold(mem, prio, perf, cong, s, a, r, ns, d) ==
    [memory |-> remember(mem, s, a, r, ns, d, MemoryMaxLen),
     priority_memory |->
        IF Abs(r) >= PRIORITY_THRESHOLD
        THEN DequeAppend(prio, Experience(s, a, r, ns, d), PriorityMaxLen)
        ELSE prio,
     performance_history |-> DequeAppend(perf, r, HistoryMaxLen),
     congestion_history |->
        IF Len(s) >= 14
        THEN DequeAppend(cong, s[2] + s[6] + s[10] + s[14], HistoryMaxLen)
        ELSE cong]

\* remember_priority that keeps only the high-reward records
remember_priority_priority_only(mem, prio, perf, cong, s, a, r, ns, d) ==
    [memory |->
        IF Abs(r) > PRIORITY_THRESHOLD
        THEN remember(mem, s, a, r, ns, d, MemoryMaxLen)
        ELSE mem,
     priority_memory |->
        IF Abs(r) > PRIORITY_THRESHOLD
        THEN DequeAppend(prio, Experience(s, a, r, ns, d), PriorityMaxLen)
        ELSE prio,
     performance_history |-> DequeAppend(perf, r, HistoryMaxLen),
     congestion_history |->
        IF Len(s) >= 14
        THEN DequeAppend(cong, s[2] + s[6] + s[10] + s[14], HistoryMaxLen)
        ELSE cong]

\* EnhancedDQNAgent.remember_priority: the four deques after the call.
\* sum(state[i] for i in range(1, 16, 4)) reads indices 1, 5, 9, 13 and
\* raises IndexError (swallowed, nothing appended) on a shorter state.
remember_priority(mem, prio, perf, cong, s, a, r, ns, d) ==
    [memory |-> remember(mem, s, a, r, ns, d, MemoryMaxLen),
     priority_memory |->
        IF Abs(r) > PRIORITY_THRESHOLD
        THEN DequeAppend(prio, Experience(s, a, r, ns, d), PriorityMaxLen)
        ELSE prio,
     performance_history |-> DequeAppend(perf, r, HistoryMaxLen),
     congestion_history |->
        IF Len(s) >= 14
        THEN DequeAppend(cong, s[2] + s[6] + s[10] + s[14], HistoryMaxLen)
        ELSE cong]

\* The exploration rate is an integer number of 1e-9: 0.9 is 900000000.
\* Multiplying by epsilon_decay = 1 - 1 / d takes away the d-th part
\* (rounded down).
EPSILON_START           == 900000000
EPSILON_MIN             == 50000000
EPSILON_DECAY_DIV       == 2000
BASE_EPSILON_START      == 1000000000
BASE_EPSILON_MIN        == 10000000
BASE_EPSILON_DECAY_DIV  == 200

\* a decay whose factor is 1 + 1 / d
decay_epsilon_grows(eps, eps_min, decay_div) ==
    IF eps > eps_min THEN eps + eps \div decay_div ELSE eps

\* if self.epsilon > self.epsilon_min: self.epsilon *= self.epsilon_decay
decay_epsilon(eps, eps_min, decay_div) ==
    IF eps > eps_min THEN eps - eps \div decay_div ELSE eps

\* DQNAgent.replay(batch_size) that returns: training steps and exploration
\* rate after the call (eps_min, decay_div: the fields of the agent)
replay(mem, steps, eps, batch_size, eps_min, decay_div) ==
    IF Len(mem) < batch_size
    THEN [train_steps |-> steps, epsilon |-> eps]
    ELSE [train_steps |-> steps + 1,
          epsilon |-> decay_epsilon(eps, eps_min, decay_div)]

\* enhanced_replay without the early return of lines 130-131
enhanced_replay_no_skip(mem, steps, eps, batch_size) ==
    [train_steps |-> steps + 1,
     epsilon |-> decay_epsilon(eps, EPSILON_MIN, EPSILON_DECAY_DIV)]

\* EnhancedDQNAgent.enhanced_replay(batch_size) that returns
enhanced_replay(mem, steps, eps, batch_size) ==
    IF Len(mem) < batch_size
    THEN [train_steps |-> steps, epsilon |-> eps]
    ELSE [train_steps |-> steps + 1,
          epsilon |-> decay_epsilon(eps, EPSILON_MIN, EPSILON_DECAY_DIV)]

\* Sizes of the training trigger.  The loop trains when the memory holds
\* more than 100 records, on batches of 64 (replay: 32); like the deque
\* capacities these sizes are scaled down, keeping
\* batch size <= fill + 1 <= capacity.
TRAIN_MIN_FILL  == 0    \* stands for 100 in len(memory) > 100
BATCH_SIZE      == 1    \* stands for enhanced_replay(batch_size=64)
BASE_BATCH_SIZE == 1    \* stands for replay(batch_size=32)
\* "Track performance every 100 steps"
TRACK_EVERY    == 100

\* ------------------------------------------------------- Control Loop
\* should_change_phase with the minimum-green test joined by "or"
should_change_phase_min_or(ca, phase_elapsed, cd) ==
    \/ ca = NoAction
    \/ phase_elapsed >= MINIMUM_GREEN_TIME
    \/ phase_elapsed >= cd
    \/ phase_elapsed >= MAXIMUM_GREEN_TIME

should_change_phase(ca, phase_elapsed, cd) ==
    \/ ca = NoAction
    \/ /\ phase_elapsed >= MINIMUM_GREEN_TIME
       /\ \/ phase_elapsed >= cd
          \/ phase_elapsed >= MAXIMUM_GREEN_TIME

\* congestion_levels after a tick that reached line 352: every 100 steps
\* sum(state[1::4]) is appended, i.e. state[1] + state[5] + state[9]
track_performance(levels, steps, s) ==
    IF steps % TRACK_EVERY = 0
    THEN Append(levels, s[2] + s[6] + s[10])
    ELSE levels

\* a switch that forgets to restart the phase timer
phase_start_after_switch_stale(now, old_start) == old_start

\* current_phase_start = current_time
phase_start_after_switch(now, old_start) == now

\* a switch that keeps the state of the switch before
prev_state_after_switch_stale(s, old) == old

\* prev_state = state.copy()
prev_state_after_switch(s, old) == s

\* Snapshots the normalizer (get_correct_traffic_state) hands to the loop.
\* A direction with n vehicles, k of them below 2 m/s and mean speed v has
\* the features <<min(n/10, 1), k/n, v/15>>.
Zeros3 == <<0, 0, 0>>
LoopStates ==
    { \* empty junction, or the snapshot read failed: np.zeros(12)
      Zeros3 \o Zeros3 \o Zeros3 \o Zeros3,
      \* N: 8 vehicles at 7.5 m/s; S: 1 vehicle at 13.5 m/s
      <<800, 0, 500>> \o <<100, 0, 900>> \o Zeros3 \o Zeros3,
      \* W: 10 vehicles, all crawling at 0.75 m/s
      Zeros3 \o Zeros3 \o Zeros3 \o <<1000, 1000, 50>>,
      \* N: 1 stopped vehicle; E: 4 vehicles, 2 slow, mean 4.5 m/s
      <<100, 1000, 0>> \o Zeros3 \o <<400, 500, 300>> \o Zeros3 }

\* Bounds of the run: simulated seconds and stored transitions
MaxTime    == 46
MaxRecords == 1

\* What can go wrong inside one switch: agent.act raises, or
\* setRedYellowGreenState raises, or setPhaseDuration raises
Faults == {"none", "act", "ryg", "dur"}

\* switches counts the iterations so far that entered the switch branch
NoTick == [switched |-> FALSE, ended |-> NoAction, elapsed |-> 0,
           sent |-> "none", sent_duration |-> Unbound, began |-> 0,
           fault |-> "none", replay |-> "none", switches |-> 0]
NoCall == [kind |-> "none"]

\* the server of dashboard/main.py after import: nothing runs
IdleApi ==
    /\ sumo_running = FALSE
    /\ traffic_light_manual_mode = FALSE
    /\ manual_traffic_states = <<>>
    /\ connected = FALSE
    /\ sim_threads = <<>>
    /\ stopped = FALSE

\* run_dqn_simulation has not been entered
IdleDqn ==
    /\ hold_timer = 0
    /\ next_action = NoAction
    /\ action_ready = FALSE
    /\ threads = <<>>
    /\ base_reward = 0

Init ==
    /\ pc = "loop"
    /\ step = 0
    /\ current_time = 0
    /\ current_phase_start = 0
    /\ current_action = NoAction
    /\ current_duration = 15
    /\ actual_duration = Unbound
    /\ prev_state = <<>>
    /\ state = <<>>
    /\ episode_rewards = <<>>
    /\ congestion_levels = <<>>
    /\ memory = <<>>
    /\ priority_memory = <<>>
    /\ performance_history = <<>>
    /\ congestion_history = <<>>
    /\ train_steps = 0
    /\ epsilon = EPSILON_START
    /\ base_memory = <<>>
    /\ base_train_steps = 0
    /\ base_epsilon = BASE_EPSILON_START
    /\ tls_state = "program"
    /\ tls_duration = Unbound
    /\ tick = NoTick
    /\ call = NoCall
    /\ ret = <<>>
    /\ appended = <<>>
    /\ IdleDqn
    /\ IdleApi

\* a hold tick that also runs the training step of line 349
Hold_trains(s) ==
    LET now           == current_time + StepLength
        phase_elapsed == now - current_phase_start
        trained == IF Len(memory) > TRAIN_MIN_FILL
                   THEN enhanced_replay(memory, train_steps, epsilon,
                                        BATCH_SIZE)
                   ELSE [train_steps |-> train_steps, epsilon |-> epsilon]
    IN  /\ pc = "loop"
        /\ UNCHANGED <<dqnVars, apiVars>>
        /\ now <= MaxTime
        /\ ~should_change_phase(current_action, phase_elapsed, current_duration)
        /\ step' = step + 1
        /\ current_time' = now
        /\ state' = s
        /\ tick' = [NoTick EXCEPT !.began = tick.began,
                               !.switches = tick.switches]
        /\ congestion_levels' =
               track_performance(congestion_levels, step + 1, s)
        /\ train_steps' = trained.train_steps
        /\ epsilon' = trained.epsilon
        /\ UNCHANGED <<pc, current_phase_start, current_action,
                       current_duration, actual_duration, prev_state,
                       episode_rewards>>
        /\ UNCHANGED <<memory, priority_memory, performance_history,
                       congestion_history, base_memory, base_train_steps,
                       base_epsilon, tlsVars, callVars>>

\* One iteration of the while loop that does not switch the phase
Hold(s) ==
    LET now           == current_time + StepLength
        phase_elapsed == now - current_phase_start
    IN  /\ pc = "loop"
        /\ UNCHANGED <<dqnVars, apiVars>>
        /\ now <= MaxTime
        /\ ~should_change_phase(current_action, phase_elapsed, current_duration)
        /\ step' = step + 1
        /\ current_time' = now
        /\ state' = s
        /\ tick' = [NoTick EXCEPT !.began = tick.began,
                               !.switches = tick.switches]
        /\ congestion_levels' =
               track_performance(congestion_levels, step + 1, s)
        /\ UNCHANGED <<pc, current_phase_start, current_action,
                       current_duration, actual_duration, prev_state,
                       episode_rewards>>
        /\ UNCHANGED <<agentVars, tlsVars, callVars>>

\* One iteration of the while loop that switches the phase.  dqn is what
\* agent.act returns, fault what raises during the switch, replay_raises
\* whether enhanced_replay raises when it is called.
Switch(s, dqn, fault, replay_raises) ==
    LET now           == current_time + StepLength
        phase_elapsed == now - current_phase_start
        stores        == prev_state # <<>> /\ current_action # NoAction
        reward        == calculate_smart_reward(prev_state, s, current_action)
        ag == IF stores
              THEN remember_priority(memory, priority_memory,
                       performance_history, congestion_history,
                       prev_state, current_action, reward, s, FALSE)
              ELSE [memory |-> memory, priority_memory |-> priority_memory,
                    performance_history |-> performance_history,
                    congestion_history |-> congestion_history]
        chosen == choose_intelligent_action_and_duration(dqn, s,
                      MINIMUM_GREEN_TIME, MAXIMUM_GREEN_TIME,
                      DEFAULT_GREEN_TIME)
        phase  == apply_intelligent_action(chosen[1], s)
        \* actual_duration = max(current_duration, MINIMUM_GREEN_TIME) runs
        \* only when setRedYellowGreenState returned
        actual == IF fault = "ryg" THEN actual_duration
                  ELSE Max(chosen[2], MINIMUM_GREEN_TIME)
        trains == Len(ag.memory) > TRAIN_MIN_FILL
        trained == IF trains
                   THEN enhanced_replay(ag.memory, train_steps, epsilon,
                                        BATCH_SIZE)
                   ELSE [train_steps |-> train_steps, epsilon |-> epsilon]
        seen   == [switched |-> TRUE, ended |-> current_action,
                   elapsed |-> IF current_action = NoAction THEN 0
                               ELSE now - tick.began,
                   sent |-> "none", sent_duration |-> Unbound,
                   began |-> tick.began, fault |-> fault,
                   switches |-> tick.switches + 1,
                   replay |-> IF fault = "act" \/ actual = Unbound
                                 \/ ~trains
                              THEN "none"
                              ELSE IF replay_raises THEN "raised"
                              ELSE "done"]
    IN  /\ pc = "loop"
        /\ UNCHANGED <<dqnVars, apiVars>>
        /\ now <= MaxTime
        /\ Len(memory) < MaxRecords \/ ~stores
        /\ should_change_phase(current_action, phase_elapsed, current_duration)
        /\ step' = step + 1
        /\ current_time' = now
        /\ state' = s
        /\ memory' = ag.memory
        /\ priority_memory' = ag.priority_memory
        /\ performance_history' = ag.performance_history
        /\ congestion_history' = ag.congestion_history
        /\ episode_rewards' = IF stores THEN Append(episode_rewards, reward)
                              ELSE episode_rewards
        /\ UNCHANGED <<base_memory, base_train_steps, base_epsilon, callVars>>
        /\ IF fault = "act"
           THEN \* agent.act raises: the outer except ends the loop
                /\ pc' = "closed"
                /\ tick' = seen
                /\ UNCHANGED <<current_phase_start, current_action,
                               current_duration, actual_duration, prev_state,
                               congestion_levels, train_steps, epsilon, tlsVars>>
           ELSE /\ current_action' = chosen[1]
                /\ tls_state' = IF fault = "ryg" THEN tls_state ELSE phase
                /\ tls_duration' = IF fault = "none" THEN actual
                                   ELSE tls_duration
                /\ actual_duration' = actual
                /\ current_phase_start' =
                       phase_start_after_switch(now, current_phase_start)
                /\ tick' = [seen EXCEPT
                               !.sent = IF fault = "ryg" THEN "none" ELSE phase,
                               !.sent_duration = IF fault = "none" THEN actual
                                                 ELSE Unbound,
                               !.began = now]
                /\ IF actual = Unbound
                   THEN \* current_duration = actual_duration raises
                        \* UnboundLocalError: the outer except ends the loop
                        /\ pc' = "closed"
                        /\ current_duration' = chosen[2]
                        /\ UNCHANGED <<prev_state, train_steps, epsilon,
                                       congestion_levels>>
                   ELSE /\ current_duration' = actual
                        /\ prev_state' = prev_state_after_switch(s, prev_state)
                        /\ IF trains /\ replay_raises
                           THEN /\ pc' = "closed"
                                /\ UNCHANGED <<train_steps, epsilon,
                                               congestion_levels>>
                           ELSE /\ pc' = pc
                                /\ congestion_levels' = track_performance(
                                       congestion_levels, step + 1, s)
                                /\ train_steps' = trained.train_steps
                                /\ epsilon' = trained.epsilon

\* One tick: traci.simulationStep(), the snapshot, then hold or switch
Tick ==
    \E s \in LoopStates :
        \/ Hold(s)
        \/ \E dqn \in Actions, fault \in Faults, replay_raises \in BOOLEAN :
               Switch(s, dqn, fault, replay_raises)

\* How the loop head ends the loop: getMinExpectedNumber() returns a value
\* <= 0 ("drained"), or getMinExpectedNumber() / simulationStep() raises
\* because the connection is lost ("lost")
LoopEnds == {"drained", "lost"}

\* a lost connection that is tried again at the next iteration
Finish_retries(cause) ==
    /\ pc = "loop"
    /\ UNCHANGED <<dqnVars, apiVars>>
    /\ pc' = IF cause = "lost" THEN "loop" ELSE "closed"
    /\ tick' = [NoTick EXCEPT !.began = tick.began, !.fault = cause,
                           !.switches = tick.switches]
    /\ UNCHANGED <<step, current_time, current_phase_start, current_action,
                   current_duration, actual_duration, prev_state, state,
                   episode_rewards, congestion_levels>>
    /\ UNCHANGED <<agentVars, tlsVars, callVars>>

\* The loop head ends the loop: the while condition is false, or the
\* exception of the failed call is caught by the except of line 366; either
\* way the finally block is entered
Finish(cause) ==
    /\ pc = "loop"
    /\ UNCHANGED <<dqnVars, apiVars>>
    /\ pc' = "closed"
    /\ tick' = [NoTick EXCEPT !.began = tick.began, !.fault = cause,
                           !.switches = tick.switches]
    /\ UNCHANGED <<step, current_time, current_phase_start, current_action,
                   current_duration, actual_duration, prev_state, state,
                   episode_rewards, congestion_levels>>
    /\ UNCHANGED <<agentVars, tlsVars, callVars>>

LoopEnd == \E cause \in LoopEnds : Finish(cause)

\* The finally block of lines 368-375: traci.close() outside any try, then
\* torch.save inside its own try/except.  An exception of traci.close()
\* leaves the function before torch.save is reached.  Either way the
\* function is left and its locals are gone (written here as their initial
\* values); the agent and the signal outlive the call.
Shutdown(close_raises, save_raises) ==
    /\ pc = "closed"
    /\ pc' = IF close_raises THEN "raised"
             ELSE IF save_raises THEN "returned"
             ELSE "saved"
    /\ step' = 0
    /\ current_time' = 0
    /\ current_phase_start' = 0
    /\ current_action' = NoAction
    /\ current_duration' = 15
    /\ actual_duration' = Unbound
    /\ prev_state' = <<>>
    /\ state' = <<>>
    /\ episode_rewards' = <<>>
    /\ congestion_levels' = <<>>
    /\ tick' = NoTick
    /\ UNCHANGED <<agentVars, tlsVars, callVars, dqnVars,
                   apiVars>>

Close == \E close_raises \in BOOLEAN, save_raises \in BOOLEAN :
             Shutdown(close_raises, save_raises)

Next == Tick \/ LoopEnd \/ Close

Spec == Init /\ [][Next]_vars

\* ------------------------------------------- the store, called directly
\* Transitions handed to remember_priority: (state, action, next_state),
\* the reward being calculate_smart_reward of them as in the loop.
StoreTransitions ==
    { \* empty -> empty: reward -1.0
      <<Zeros3 \o Zeros3 \o Zeros3 \o Zeros3, 0,
        Zeros3 \o Zeros3 \o Zeros3 \o Zeros3>>,
      \* traffic builds up: reward exactly -2.0
      <<Zeros3 \o <<100, 0, 900>> \o Zeros3 \o Zeros3, 0,
        <<300, 0, 700>> \o <<700, 0, 300>> \o Zeros3 \o Zeros3>>,
      \* a jam appears in the west: reward -7.975
      <<Zeros3 \o Zeros3 \o Zeros3 \o Zeros3, 3,
        Zeros3 \o Zeros3 \o Zeros3 \o <<1000, 1000, 50>>>>,
      \* the junction clears: reward 3.5
      <<<<800, 0, 500>> \o <<100, 0, 900>> \o Zeros3 \o Zeros3, 0,
        Zeros3 \o Zeros3 \o Zeros3 \o Zeros3>> }

\* Transitions of run_dqn_simulation (get_state: raw count and halting
\* number of four edges; get_reward: -(waiting time + halting number))
BaseTransitions ==
    { <<<<0, 0, 0, 0, 0, 0, 0, 0>>, 0, 0, <<2, 1, 0, 0, 0, 0, 0, 0>>>>,
      <<<<2, 1, 0, 0, 0, 0, 0, 0>>, 1, -4, <<3, 2, 1, 0, 0, 0, 0, 0>>>> }

\* Bound: how many records are handed to the store
MaxAppends == 5

InitStore ==
    /\ pc = "store"
    /\ step = 0
    /\ current_time = 0
    /\ current_phase_start = 0
    /\ current_action = NoAction
    /\ current_duration = 15
    /\ actual_duration = Unbound
    /\ prev_state = <<>>
    /\ state = <<>>
    /\ episode_rewards = <<>>
    /\ congestion_levels = <<>>
    /\ memory = <<>>
    /\ priority_memory = <<>>
    /\ performance_history = <<>>
    /\ congestion_history = <<>>
    /\ train_steps = 0
    /\ epsilon = EPSILON_START
    /\ base_memory = <<>>
    /\ base_train_steps = 0
    /\ base_epsilon = BASE_EPSILON_START
    /\ tls_state = "program"
    /\ tls_duration = Unbound
    /\ tick = NoTick
    /\ call = NoCall
    /\ ret = <<>>
    /\ appended = <<>>
    /\ IdleDqn
    /\ IdleApi

\* enhanced_agent.remember_priority(state, action, reward, next_state, False)
RememberPriority ==
    \E tr \in StoreTransitions :
        LET r  == calculate_smart_reward(tr[1], tr[3], tr[2])
            ag == remember_priority(memory, priority_memory,
                      performance_history, congestion_history,
                      tr[1], tr[2], r, tr[3], FALSE)
        IN  /\ pc = "store"
            /\ UNCHANGED <<dqnVars, apiVars>>
            /\ Len(appended) < MaxAppends
            /\ memory' = ag.memory
            /\ priority_memory' = ag.priority_memory
            /\ performance_history' = ag.performance_history
            /\ congestion_history' = ag.congestion_history
            /\ call' = [kind |-> "remember_priority"]
            /\ appended' = Append(appended,
                   [via |-> "remember_priority",
                    rec |-> Experience(tr[1], tr[2], r, tr[3], FALSE)])
            /\ UNCHANGED <<loopVars, train_steps, epsilon, base_memory,
                           base_train_steps, base_epsilon, tlsVars, tick,
                           ret>>

\* enhanced_agent.remember(...): the inherited method, general buffer only
Remember ==
    \E tr \in {x \in StoreTransitions : x[1][1] = 0} :
        LET r == calculate_smart_reward(tr[1], tr[3], tr[2])
        IN  /\ pc = "store"
            /\ UNCHANGED <<dqnVars, apiVars>>
            /\ Len(appended) < MaxAppends
            /\ memory' = remember(memory, tr[1], tr[2], r, tr[3], FALSE,
                                  MemoryMaxLen)
            /\ call' = [kind |-> "remember"]
            /\ appended' = Append(appended,
                   [via |-> "remember",
                    rec |-> Experience(tr[1], tr[2], r, tr[3], FALSE)])
            /\ UNCHANGED <<loopVars, priority_memory, performance_history,
                           congestion_history, train_steps, epsilon,
                           base_memory, base_train_steps, base_epsilon,
                           tlsVars, tick, ret>>

\* agent.remember(prev_state, current_action, reward, state, False)
BaseRemember ==
    \E tr \in BaseTransitions :
        /\ pc = "store"
        /\ UNCHANGED <<dqnVars, apiVars>>
        /\ Len(appended) < MaxAppends
        /\ base_memory' = remember(base_memory, tr[1], tr[2], tr[3], tr[4],
                                   FALSE, BaseMaxLen)
        /\ call' = [kind |-> "base_remember"]
        /\ appended' = Append(appended,
               [via |-> "base_remember",
                rec |-> Experience(tr[1], tr[2], tr[3], tr[4], FALSE)])
        /\ UNCHANGED <<loopVars, memory, priority_memory,
                       performance_history, congestion_history, train_steps,
                       epsilon, base_train_steps, base_epsilon, tlsVars,
                       tick, ret>>

NextStore == RememberPriority \/ Remember \/ BaseRemember

SpecStore == InitStore /\ [][NextStore]_vars

\* ------------------------------------ the pure functions, called directly
\* Features of one direction that the normalizer can produce
DirObs ==
    { Zeros3,               \* no vehicle
      <<100, 0, 900>>,      \* 1 vehicle at 13.5 m/s
      <<100, 1000, 0>>,     \* 1 stopped vehicle
      <<200, 500, 200>>,    \* 2 vehicles, 1 slow, mean 3 m/s
      <<300, 0, 700>>,      \* 3 vehicles, mean 10.5 m/s
      <<400, 500, 300>>,    \* 4 vehicles, 2 slow, mean 4.5 m/s
      <<500, 200, 750>>,    \* 5 vehicles, 1 slow, mean 11.25 m/s
      <<700, 0, 300>>,      \* 7 vehicles, mean 4.5 m/s
      <<800, 0, 500>>,      \* 8 vehicles, mean 7.5 m/s
      <<1000, 1000, 50>> }  \* 10 or more vehicles, all slow

\* What the scheduler is also called on: the scenario direction of the
\* specification (traffic 0.9, congestion 0.8, speed 0.2) and one vehicle
\* crawling at 3 m/s, which counts as neither slow nor stopped
DurationScenario == <<900, 800, 200>>
OneCrawling == <<100, 0, 200>>
DurationObs == DirObs \cup {DurationScenario, OneCrawling}

\* The reward scenario of the specification as arguments of
\* calculate_smart_reward, which takes any numbers: total traffic 5.0 and
\* total congestion 3.0 before, 3.0 and 1.0 after, with the remaining
\* congestion on a busy or on the emptied approach and every approach at
\* speed 0, 0.5 or 1
RewardScenarioPrev ==
    <<2000, 1000, 0>> \o <<1000, 1000, 0>> \o <<1000, 1000, 0>> \o <<1000, 0, 0>>
RewardScenarioCurrs ==
    { <<1000, c[1], v>> \o <<1000, 0, v>> \o <<1000, 0, v>> \o <<0, c[2], v>> :
          c \in {<<1000, 0>>, <<0, 1000>>}, v \in {0, 500, 1000} }

\* The scenario state of the specification:
\* N=(0.8,0.6,0.5), S=(0.1,0.0,0.9), E=(0,0,0), W=(0,0,0)
ScenarioState == <<800, 600, 500>> \o <<100, 0, 900>> \o Zeros3 \o Zeros3

\* A state with the given features on the four approaches
Junction(n, s, e, w) == n \o s \o e \o w

\* <<min_time, max_time, default_time>> with min_time <= max_time
TimeConfigs ==
    { <<10, 45, 15>>, <<10, 45, 5>>, <<10, 45, 60>>, <<10, 45, 0>>,
      <<20, 20, 15>>, <<5, 45, 15>>, <<0, 7, 100>>, <<30, 31, 40>> }

Call(kind, action, prev, curr, cfg) ==
    [kind |-> kind, action |-> action, prev |-> prev, curr |-> curr,
     min_time |-> cfg[1], max_time |-> cfg[2], default_time |-> cfg[3]]

ProgramConfig == <<MINIMUM_GREEN_TIME, MAXIMUM_GREEN_TIME, DEFAULT_GREEN_TIME>>

\* The calls: the validator and the chooser on every junction of DirObs
\* and on the scenario state, with the loop's timing; the scheduler on
\* junctions with traffic north and south under every timing; the reward on
\* pairs of such junctions
IsCall(c) ==
    \/ \E k \in {"validate", "choose"}, a \in Actions :
          \/ \E n \in DirObs, s \in DirObs, e \in DirObs, w \in DirObs :
                c = Call(k, a, <<>>, Junction(n, s, e, w), ProgramConfig)
          \/ c = Call(k, a, <<>>, ScenarioState, ProgramConfig)
    \/ \E a \in Actions, cfg \in TimeConfigs :
          \/ \E n \in DurationObs, s \in DirObs :
                c = Call("duration", a, <<>>,
                         Junction(n, s, Zeros3, Zeros3), cfg)
          \/ c = Call("duration", a, <<>>, ScenarioState, cfg)
    \/ \E a \in Actions, pn \in DirObs, ps \in DirObs,
          n \in DirObs, s \in DirObs :
          c = Call("reward", a, Junction(pn, ps, Zeros3, Zeros3),
                   Junction(n, s, Zeros3, Zeros3), ProgramConfig)
    \/ \E a \in Actions, curr \in RewardScenarioCurrs :
          c = Call("reward", a, RewardScenarioPrev, curr, ProgramConfig)

InitCalls ==
    /\ pc = "call"
    /\ step = 0
    /\ current_time = 0
    /\ current_phase_start = 0
    /\ current_action = NoAction
    /\ current_duration = 15
    /\ actual_duration = Unbound
    /\ prev_state = <<>>
    /\ state = <<>>
    /\ episode_rewards = <<>>
    /\ congestion_levels = <<>>
    /\ memory = <<>>
    /\ priority_memory = <<>>
    /\ performance_history = <<>>
    /\ congestion_history = <<>>
    /\ train_steps = 0
    /\ epsilon = EPSILON_START
    /\ base_memory = <<>>
    /\ base_train_steps = 0
    /\ base_epsilon = BASE_EPSILON_START
    /\ tls_state = "program"
    /\ tls_duration = Unbound
    /\ tick = NoTick
    /\ IsCall(call)
    /\ ret = <<>>
    /\ appended = <<>>
    /\ IdleDqn
    /\ IdleApi

Returns(kind, value) ==
    /\ pc = "call"
    /\ UNCHANGED <<dqnVars, apiVars>>
    /\ call.kind = kind
    /\ ret = <<>>
    /\ ret' = <<value>>
    /\ UNCHANGED <<loopVars, agentVars, tlsVars, tick, call, appended>>

Validate ==
    Returns("validate",
            validate_action_choice(call.action, TrafficOf(call.curr),
                                   CongestionOf(call.curr)))

Choose ==
    Returns("choose",
            choose_intelligent_action_and_duration(call.action, call.curr,
                call.min_time, call.max_time, call.default_time))

Duration ==
    Returns("duration",
            calculate_adaptive_duration(call.action, TrafficOf(call.curr),
                CongestionOf(call.curr), SpeedsOf(call.curr),
                call.min_time, call.max_time, call.default_time))

Reward ==
    Returns("reward",
            calculate_smart_reward(call.prev, call.curr, call.action))

NextCalls == Validate \/ Choose \/ Duration \/ Reward

SpecCalls == InitCalls /\ [][NextCalls]_vars

\* ------------------------------------------------ Snapshot Normalizer
\* Raw reads.  A position is a pair of whole metres, a speed an integer
\* number of tenths of a metre per second (2.0 m/s is 20, 15.0 m/s is 150).
\* pos_ok / speed_ok: whether traci.vehicle.getPosition / getSpeed of the
\* vehicle returns (TRUE) or raises (FALSE).
Vehicle(x, y, speed, pos_ok, speed_ok) ==
    [x |-> x, y |-> y, speed |-> speed, pos_ok |-> pos_ok,
     speed_ok |-> speed_ok]

AREA_DISTANCE  == 25
SLOW_SPEED     == 20
SPEED_SCALE    == 150
COUNT_SCALE    == 10

RECURSIVE SumSeq(_)
SumSeq(q) == IF q = <<>> THEN 0 ELSE Head(q) + SumSeq(Tail(q))

\* a try block that only guards the position read
read_ok_position_only(v) == v.pos_ok

\* Both reads of the per-vehicle try block come before the vehicle is
\* counted: the block is left by "continue" when either of them raises
read_ok(v) == v.pos_ok /\ v.speed_ok

\* the chain with the thresholds themselves inside the areas
area_of_inclusive(v) ==
    IF v.y >= AREA_DISTANCE THEN "north"
    ELSE IF v.y <= -AREA_DISTANCE THEN "south"
    ELSE IF v.x >= AREA_DISTANCE THEN "east"
    ELSE IF v.x <= -AREA_DISTANCE THEN "west"
    ELSE "none"

\* The if / elif chain on the position
area_of(v) ==
    IF v.y > AREA_DISTANCE THEN "north"
    ELSE IF v.y < -AREA_DISTANCE THEN "south"
    ELSE IF v.x > AREA_DISTANCE THEN "east"
    ELSE IF v.x < -AREA_DISTANCE THEN "west"
    ELSE "none"

\* north_speeds, south_speeds, ...: the speeds of the vehicles counted in
\* an area, in the order of the ID list (the counter north_bound is the
\* length of north_speeds: both change together)
speeds_in(vehicles, area) ==
    LET Counted(v) == read_ok(v) /\ area_of(v) = area
        kept       == SelectSeq(vehicles, Counted)
    IN  [i \in 1 .. Len(kept) |-> kept[i].speed]

\* share of the speeds below 2 m/s, in thousandths (rounded down)
get_congestion(speeds) ==
    IF speeds = <<>> THEN 0
    ELSE (Cardinality({i \in DOMAIN speeds : speeds[i] < SLOW_SPEED}) * 1000)
             \div Len(speeds)

\* np.mean(speeds) / 15.0 if speeds else 0, in thousandths (rounded down)
mean_speed_feature(speeds) ==
    IF speeds = <<>> THEN 0
    ELSE (SumSeq(speeds) * 1000) \div (Len(speeds) * SPEED_SCALE)

\* the three features of one direction
direction_features(speeds) ==
    << Min((Len(speeds) * 1000) \div COUNT_SCALE, 1000),
       get_congestion(speeds),
       mean_speed_feature(speeds) >>

\* list_ok: whether traci.vehicle.getIDList() returns or raises
get_correct_traffic_state(vehicles, list_ok) ==
    IF ~list_ok
    THEN Zeros3 \o Zeros3 \o Zeros3 \o Zeros3
    ELSE direction_features(speeds_in(vehicles, "north"))
         \o direction_features(speeds_in(vehicles, "south"))
         \o direction_features(speeds_in(vehicles, "east"))
         \o direction_features(speeds_in(vehicles, "west"))

\* The reads of one edge: vehicle number, halting number, mean speed and
\* lane speed limit (tenths of m/s); ok is FALSE when a read of the edge
\* raises
EdgeRead(count, halting, mean_speed, max_speed, ok) ==
    [count |-> count, halting |-> halting, mean_speed |-> mean_speed,
     max_speed |-> max_speed, ok |-> ok]

EDGE_COUNT_SCALE   == 20
EDGE_HALTING_SCALE == 15
PRESSURE_SCALE     == 10
PHASE_SCALE        == 30
EMERGENCY_SCALE    == 5

\* get_state: raw count and halting number of the four edges
get_state(reads) ==
    LET one(e) == IF e.ok THEN <<e.count, e.halting>> ELSE <<0, 0>>
    IN  one(reads[1]) \o one(reads[2]) \o one(reads[3]) \o one(reads[4])

\* get_enhanced_state: four features per edge, in thousandths
get_enhanced_state(reads) ==
    LET one(e) ==
            IF e.ok
            THEN << Min((e.count * 1000) \div EDGE_COUNT_SCALE, 1000),
                    Min((e.halting * 1000) \div EDGE_HALTING_SCALE, 1000),
                    IF e.max_speed > 0
                    THEN (e.mean_speed * 1000) \div e.max_speed
                    ELSE 0,
                    (e.halting * 1000) \div Max(e.count, 1) >>
            ELSE <<0, 0, 0, 0>>
    IN  one(reads[1]) \o one(reads[2]) \o one(reads[3]) \o one(reads[4])

\* get_junction_pressure: the first two edges against the last two; any
\* raising read gives 0
get_junction_pressure(reads) ==
    IF \A i \in 1 .. 4 : reads[i].ok
    THEN (reads[1].count + reads[2].count)
         - (reads[3].count + reads[4].count)
    ELSE 0

\* What traci.trafficlight and the ID list tell get_comprehensive_state:
\* getNextSwitch() - getTime() in seconds, the number of vehicles whose id
\* holds "emergency" or "bus", and whether these reads return
TlsRead(to_switch, emergency, ok) ==
    [to_switch |-> to_switch, emergency |-> emergency, ok |-> ok]

\* get_comprehensive_state: the 16 edge features and, when the reads of the
\* try block return, pressure, phase time and emergency presence
get_comprehensive_state(reads, tls) ==
    LET basic_state == get_enhanced_state(reads)
        pressure    == get_junction_pressure(reads)
    IN  IF tls.ok
        THEN basic_state \o
             << Max(-1000, Min(1000, (pressure * 1000) \div PRESSURE_SCALE)),
                (tls.to_switch * 1000) \div PHASE_SCALE,
                Min((tls.emergency * 1000) \div EMERGENCY_SCALE, 1000) >>
        ELSE basic_state

\* n copies of a vehicle
Repeat(v, n) == [i \in 1 .. n |-> v]

\* Bound: the longest run of equal vehicles in a snapshot
MaxRun == 11

\* Vehicles of the snapshots
VehicleKinds ==
    { Vehicle(0, 40, 180, TRUE, TRUE),     \* north, motorcycle at 18 m/s
      Vehicle(0, 40, 0, TRUE, TRUE),       \* north, stopped
      Vehicle(3, -40, 135, TRUE, TRUE),    \* south, 13.5 m/s
      Vehicle(40, 0, 15, TRUE, TRUE),      \* east, crawling at 1.5 m/s
      Vehicle(-40, 40, 75, TRUE, TRUE),    \* north-west corner: north first
      Vehicle(-40, 0, 20, TRUE, TRUE),     \* west, exactly 2.0 m/s
      Vehicle(25, -25, 100, TRUE, TRUE),   \* on the thresholds: no area
      Vehicle(0, 40, 0, FALSE, TRUE),      \* getPosition raises
      Vehicle(0, -40, 0, TRUE, FALSE) }    \* getSpeed raises

RunLengths == {0, 1, 2, MaxRun}

\* Edge reads of get_state / get_enhanced_state
EdgeReads ==
    { EdgeRead(0, 0, 0, 139, TRUE),        \* empty edge
      EdgeRead(3, 1, 120, 139, TRUE),      \* light traffic
      EdgeRead(25, 16, 5, 139, TRUE),      \* more than both scales
      EdgeRead(2, 0, 160, 139, TRUE),      \* mean speed above the limit
      EdgeRead(4, 4, 0, 0, TRUE),          \* lane without a speed limit
      EdgeRead(3, 1, 120, 139, FALSE) }    \* a read of the edge raises

TlsReads ==
    { TlsRead(0, 0, TRUE), TlsRead(12, 1, TRUE), TlsRead(45, 6, TRUE),
      TlsRead(12, 1, FALSE) }

NormCall(kind, vehicles, list_ok, reads, tls) ==
    [kind |-> kind, vehicles |-> vehicles, list_ok |-> list_ok,
     reads |-> reads, tls |-> tls]

NoReads == <<>>
NoTls   == TlsRead(0, 0, FALSE)

IsNormCall(c) ==
    \/ \E a \in VehicleKinds, b \in VehicleKinds, d \in VehicleKinds,
          m \in RunLengths, n \in {0, 1}, list_ok \in BOOLEAN :
          c = NormCall("traffic_state",
                       Repeat(a, m) \o Repeat(b, n) \o Repeat(d, n),
                       list_ok, NoReads, NoTls)
    \/ \E e1 \in EdgeReads, e2 \in EdgeReads, e3 \in EdgeReads,
          e4 \in EdgeReads :
          \/ \E k \in {"get_state", "enhanced_state"} :
                c = NormCall(k, <<>>, TRUE, <<e1, e2, e3, e4>>, NoTls)
          \/ \E tls \in TlsReads :
                c = NormCall("comprehensive_state", <<>>, TRUE,
                             <<e1, e2, e3, e4>>, tls)

InitNorm ==
    /\ pc = "norm"
    /\ step = 0
    /\ current_time = 0
    /\ current_phase_start = 0
    /\ current_action = NoAction
    /\ current_duration = 15
    /\ actual_duration = Unbound
    /\ prev_state = <<>>
    /\ state = <<>>
    /\ episode_rewards = <<>>
    /\ congestion_levels = <<>>
    /\ memory = <<>>
    /\ priority_memory = <<>>
    /\ performance_history = <<>>
    /\ congestion_history = <<>>
    /\ train_steps = 0
    /\ epsilon = EPSILON_START
    /\ base_memory = <<>>
    /\ base_train_steps = 0
    /\ base_epsilon = BASE_EPSILON_START
    /\ tls_state = "program"
    /\ tls_duration = Unbound
    /\ tick = NoTick
    /\ IsNormCall(call)
    /\ ret = <<>>
    /\ appended = <<>>
    /\ IdleDqn
    /\ IdleApi

NormReturns(kind, value) ==
    /\ pc = "norm"
    /\ UNCHANGED <<dqnVars, apiVars>>
    /\ call.kind = kind
    /\ ret = <<>>
    /\ ret' = <<value>>
    /\ UNCHANGED <<loopVars, agentVars, tlsVars, tick, call, appended>>

GetCorrectTrafficState ==
    NormReturns("traffic_state",
                get_correct_traffic_state(call.vehicles, call.list_ok))

GetState == NormReturns("get_state", get_state(call.reads))

GetEnhancedState ==
    NormReturns("enhanced_state", get_enhanced_state(call.reads))

GetComprehensiveState ==
    NormReturns("comprehensive_state",
                get_comprehensive_state(call.reads, call.tls))

NextNorm ==
    GetCorrectTrafficState \/ GetState \/ GetEnhancedState
        \/ GetComprehensiveState

SpecNorm == InitNorm /\ [][NextNorm]_vars

\* --------------------------------------- the agents, called directly
\* Bound: completed training steps of the agent under test
MaxTrainSteps == 920

\* batch sizes handed to replay / enhanced_replay
BatchSizes == {BATCH_SIZE, BATCH_SIZE + 1}

\* the record the calls store: a jam appears in the west
AgentTransition ==
    <<Zeros3 \o Zeros3 \o Zeros3 \o Zeros3, 3,
      Zeros3 \o Zeros3 \o Zeros3 \o <<1000, 1000, 50>>>>

AgentBaseTransition == <<<<0, 0, 0, 0, 0, 0, 0, 0>>, 0, 0, <<2, 1, 0, 0, 0, 0, 0, 0>>>>

\* the object the calls are made on: agent (DQNAgent) or enhanced_agent
AgentCall(class) == [kind |-> "agent", class |-> class]

InitAgent ==
    /\ pc = "agent"
    /\ step = 0
    /\ current_time = 0
    /\ current_phase_start = 0
    /\ current_action = NoAction
    /\ current_duration = 15
    /\ actual_duration = Unbound
    /\ prev_state = <<>>
    /\ state = <<>>
    /\ episode_rewards = <<>>
    /\ congestion_levels = <<>>
    /\ memory = <<>>
    /\ priority_memory = <<>>
    /\ performance_history = <<>>
    /\ congestion_history = <<>>
    /\ train_steps = 0
    /\ epsilon = EPSILON_START
    /\ base_memory = <<>>
    /\ base_train_steps = 0
    /\ base_epsilon = BASE_EPSILON_START
    /\ tls_state = "program"
    /\ tls_duration = Unbound
    /\ tick = NoTick
    /\ call \in {AgentCall("DQNAgent"), AgentCall("EnhancedDQNAgent")}
    /\ ret = <<>>
    /\ appended = <<>>
    /\ IdleDqn
    /\ IdleApi

\* the exploration rate of the object under test
EpsilonOf(class) == IF class = "DQNAgent" THEN base_epsilon ELSE epsilon

\* what the last call was: its name, the exploration rate it found and
\* whether it ran to its end
Done(op, completed) == <<op, EpsilonOf(call.class), completed>>

\* the same for a replay call, with the batch size it was given
DoneReplay(op, completed, batch_size) == Done(op, completed) \o <<batch_size>>

\* act(state): reads epsilon and the parameters, writes nothing
AgentAct ==
    /\ pc = "agent"
    /\ UNCHANGED <<dqnVars, apiVars>>
    /\ ret' = Done("act", TRUE)
    /\ UNCHANGED <<loopVars, agentVars, tlsVars, tick, call, appended>>

\* remember(...), on either object
AgentRemember ==
    /\ pc = "agent"
    /\ UNCHANGED <<dqnVars, apiVars>>
    /\ ret' = Done("remember", TRUE)
    /\ IF call.class = "DQNAgent"
       THEN /\ base_memory' =
                   remember(base_memory, AgentBaseTransition[1],
                            AgentBaseTransition[2], AgentBaseTransition[3],
                            AgentBaseTransition[4], FALSE, BaseMaxLen)
            /\ UNCHANGED memory
       ELSE /\ memory' =
                   remember(memory, AgentTransition[1], AgentTransition[2],
                       calculate_smart_reward(AgentTransition[1],
                           AgentTransition[3], AgentTransition[2]),
                       AgentTransition[3], FALSE, MemoryMaxLen)
            /\ UNCHANGED base_memory
    /\ UNCHANGED <<loopVars, priority_memory, performance_history,
                   congestion_history, train_steps, epsilon,
                   base_train_steps, base_epsilon, tlsVars, tick, call,
                   appended>>

\* enhanced_agent.remember_priority(...)
AgentRememberPriority ==
    LET r  == calculate_smart_reward(AgentTransition[1], AgentTransition[3],
                                     AgentTransition[2])
        ag == remember_priority(memory, priority_memory,
                  performance_history, congestion_history,
                  AgentTransition[1], AgentTransition[2], r,
                  AgentTransition[3], FALSE)
    IN  /\ pc = "agent"
        /\ UNCHANGED <<dqnVars, apiVars>>
        /\ call.class = "EnhancedDQNAgent"
        /\ ret' = Done("remember_priority", TRUE)
        /\ memory' = ag.memory
        /\ priority_memory' = ag.priority_memory
        /\ performance_history' = ag.performance_history
        /\ congestion_history' = ag.congestion_history
        /\ UNCHANGED <<loopVars, train_steps, epsilon, base_memory,
                       base_train_steps, base_epsilon, tlsVars, tick, call,
                       appended>>

\* replay(batch_size), on either object (EnhancedDQNAgent inherits it);
\* raises: the training raises before the call reaches its last statement
AgentReplay(batch_size, raises) ==
    /\ pc = "agent"
    /\ UNCHANGED <<dqnVars, apiVars>>
    /\ IF call.class = "DQNAgent"
       THEN LET after == replay(base_memory, base_train_steps, base_epsilon,
                             batch_size, BASE_EPSILON_MIN,
                             BASE_EPSILON_DECAY_DIV)
            IN  /\ base_train_steps < MaxTrainSteps
                /\ raises => Len(base_memory) >= batch_size
                /\ ret' = DoneReplay("replay", ~raises, batch_size)
                /\ base_train_steps' = IF raises THEN base_train_steps
                                       ELSE after.train_steps
                /\ base_epsilon' = IF raises THEN base_epsilon
                                   ELSE after.epsilon
                /\ UNCHANGED <<train_steps, epsilon>>
       ELSE LET after == replay(memory, train_steps, epsilon, batch_size,
                             EPSILON_MIN, EPSILON_DECAY_DIV)
            IN  /\ train_steps < MaxTrainSteps
                /\ raises => Len(memory) >= batch_size
                /\ ret' = DoneReplay("replay", ~raises, batch_size)
                /\ train_steps' = IF raises THEN train_steps
                                  ELSE after.train_steps
                /\ epsilon' = IF raises THEN epsilon ELSE after.epsilon
                /\ UNCHANGED <<base_train_steps, base_epsilon>>
    /\ UNCHANGED <<loopVars, memory, priority_memory, performance_history,
                   congestion_history, base_memory, tlsVars, tick, call,
                   appended>>

\* enhanced_agent.enhanced_replay(batch_size)
AgentEnhancedReplay(batch_size, raises) ==
    LET after == enhanced_replay(memory, train_steps, epsilon, batch_size)
    IN  /\ pc = "agent"
        /\ UNCHANGED <<dqnVars, apiVars>>
        /\ call.class = "EnhancedDQNAgent"
        /\ train_steps < MaxTrainSteps
        /\ raises => Len(memory) >= batch_size
        /\ ret' = DoneReplay("enhanced_replay", ~raises, batch_size)
        /\ train_steps' = IF raises THEN train_steps ELSE after.train_steps
        /\ epsilon' = IF raises THEN epsilon ELSE after.epsilon
        /\ UNCHANGED <<loopVars, memory, priority_memory,
                       performance_history, congestion_history, base_memory,
                       base_train_steps, base_epsilon, tlsVars, tick, call,
                       appended>>

\* the training statement of the control loop (lines 349-350):
\* if len(enhanced_agent.memory) > 100: enhanced_replay(batch_size=64)
LoopTraining(raises) ==
    LET trains == Len(memory) > TRAIN_MIN_FILL
        after  == enhanced_replay(memory, train_steps, epsilon, BATCH_SIZE)
    IN  /\ pc = "agent"
        /\ UNCHANGED <<dqnVars, apiVars>>
        /\ call.class = "EnhancedDQNAgent"
        /\ train_steps < MaxTrainSteps
        /\ raises => trains
        /\ ret' = IF trains
                  THEN DoneReplay("enhanced_replay", ~raises, BATCH_SIZE)
                  ELSE Done("no_training", TRUE)
        /\ train_steps' = IF trains /\ ~raises THEN after.train_steps
                          ELSE train_steps
        /\ epsilon' = IF trains /\ ~raises THEN after.epsilon ELSE epsilon
        /\ UNCHANGED <<loopVars, memory, priority_memory,
                       performance_history, congestion_history, base_memory,
                       base_train_steps, base_epsilon, tlsVars, tick, call,
                       appended>>

NextAgent ==
    \/ AgentAct
    \/ AgentRemember
    \/ AgentRememberPriority
    \/ \E batch_size \in BatchSizes, raises \in BOOLEAN :
          \/ AgentReplay(batch_size, raises)
          \/ AgentEnhancedReplay(batch_size, raises)
    \/ \E raises \in BOOLEAN : LoopTraining(raises)

SpecAgent == InitAgent /\ [][NextAgent]_vars

\* ------------------------------------------------ run_dqn_simulation
\* The loop adds 0.1 to hold_timer per tick; in floating point the sum of
\* 30 such additions is 3.0000000000000013, so "hold_timer >= 3.0" holds
\* from the 30th tick after a reset on.
HOLD_TICKS == 30

\* Bounds: ticks of the loop, and ticks the loop spends in one phase
\* (how long it is kept waiting for a computation)
MaxDqnSteps == 63
MaxHold     == 32

\* prev_state = np.array([0]*8)
ZeroObs == <<0, 0, 0, 0, 0, 0, 0, 0>>

\* what get_state and get_reward return to the loop
BaseObs     == {ZeroObs, <<2, 1, 0, 0, 0, 0, 0, 0>>}
BaseRewards == {0, -4}

\* a compute_next_action thread: where it is and what agent.act gave it
Thread(p, v) == [pc |-> p, value |-> v]

\* a thread that announces its result before it writes it
thread_after_ready_first(p) ==
    CASE p = "act"          -> "write_ready"
      [] p = "write_ready"  -> "write_action"
      [] p = "write_action" -> "done"

\* The order of the statements of compute_next_action, the same in the try
\* and in the except branch: next_action = ..., then action_ready = True
thread_after(p) ==
    CASE p = "act"          -> "write_action"
      [] p = "write_action" -> "write_ready"
      [] p = "write_ready"  -> "done"

\* a loop that switches every 3 seconds whether or not an action is ready
switch_due_ignores_ready(timer, ready) == timer >= HOLD_TICKS

\* if hold_timer >= 3.0 and action_ready
switch_due(timer, ready) == timer >= HOLD_TICKS /\ ready

InitDqn ==
    /\ pc = "dqn_tick"
    /\ IdleApi
    /\ step = 0
    /\ current_time = 0
    /\ current_phase_start = 0
    /\ current_action = NoAction
    /\ current_duration = 15
    /\ actual_duration = Unbound
    /\ prev_state = ZeroObs
    /\ state = <<>>
    /\ episode_rewards = <<>>
    /\ congestion_levels = <<>>
    /\ memory = <<>>
    /\ priority_memory = <<>>
    /\ performance_history = <<>>
    /\ congestion_history = <<>>
    /\ train_steps = 0
    /\ epsilon = EPSILON_START
    /\ base_memory = <<>>
    /\ base_train_steps = 0
    /\ base_epsilon = BASE_EPSILON_START
    /\ tls_state = "program"
    /\ tls_duration = Unbound
    /\ tick = NoTick
    /\ call = NoCall
    /\ ret = <<>>
    /\ appended = <<>>
    /\ hold_timer = 0
    /\ next_action = NoAction
    /\ action_ready = FALSE
    \* line 76: the first computation is started before the loop
    /\ threads = <<Thread("get_state", NoAction)>>
    /\ base_reward = 0

\* Thread i moves on to p holding v; a thread that is done leaves the list
\* and its result is the result of the last completed computation
Advance(i, p, v) ==
    /\ threads' = IF p = "done"
                  THEN SubSeq(threads, 1, i - 1)
                           \o SubSeq(threads, i + 1, Len(threads))
                  ELSE [threads EXCEPT ![i] = Thread(p, v)]
    /\ ret' = IF p = "done" THEN <<v>> ELSE ret

\* state = get_state(): returns in every case (it catches per edge)
ThreadGetState(i) ==
    /\ pc # "closed"
    /\ UNCHANGED apiVars
    /\ threads[i].pc = "get_state"
    /\ Advance(i, "act", NoAction)
    /\ UNCHANGED <<loopVars, agentVars, tlsVars, tick, call, appended,
                   hold_timer, next_action, action_ready, base_reward>>

\* agent.act(state) returns a, or raises and the except branch takes 0
ThreadAct(i, a, raises) ==
    /\ pc # "closed"
    /\ UNCHANGED apiVars
    /\ threads[i].pc = "act"
    /\ Advance(i, thread_after("act"), IF raises THEN 0 ELSE a)
    /\ UNCHANGED <<loopVars, agentVars, tlsVars, tick, call, appended,
                   hold_timer, next_action, action_ready, base_reward>>

\* next_action = ...
ThreadWriteAction(i) ==
    /\ pc # "closed"
    /\ UNCHANGED apiVars
    /\ threads[i].pc = "write_action"
    /\ next_action' = threads[i].value
    /\ Advance(i, thread_after("write_action"), threads[i].value)
    /\ UNCHANGED <<loopVars, agentVars, tlsVars, tick, call, appended,
                   hold_timer, action_ready, base_reward>>

\* action_ready = True
ThreadWriteReady(i) ==
    /\ pc # "closed"
    /\ UNCHANGED apiVars
    /\ threads[i].pc = "write_ready"
    /\ action_ready' = TRUE
    /\ Advance(i, thread_after("write_ready"), threads[i].value)
    /\ UNCHANGED <<loopVars, agentVars, tlsVars, tick, call, appended,
                   hold_timer, next_action, base_reward>>

\* A step of a thread.  The threads are daemons: they are followed while
\* the loop runs.
ThreadStep ==
    \E i \in DOMAIN threads :
        \/ ThreadGetState(i)
        \/ \E a \in Actions, raises \in BOOLEAN : ThreadAct(i, a, raises)
        \/ ThreadWriteAction(i)
        \/ ThreadWriteReady(i)

\* what the loop leaves alone in every step
DqnFrame ==
    UNCHANGED <<current_time, current_phase_start, current_duration,
                actual_duration, episode_rewards, congestion_levels, memory,
                priority_memory, performance_history, congestion_history,
                train_steps, epsilon, tls_duration, callVars, next_action,
                threads>>

\* lines 78-85: one simulation step, then the test of the if
DqnTick ==
    /\ pc = "dqn_tick"
    /\ UNCHANGED apiVars
    /\ step < MaxDqnSteps
    /\ hold_timer < MaxHold
    /\ step' = step + 1
    /\ hold_timer' = hold_timer + 1
    /\ pc' = IF switch_due(hold_timer + 1, action_ready)
             THEN "dqn_observe" ELSE "dqn_tick"
    /\ tick' = NoTick
    /\ DqnFrame
    /\ UNCHANGED <<current_action, prev_state, state, base_memory,
                   base_train_steps, base_epsilon, tls_state, action_ready,
                   base_reward>>

\* lines 87-88: state = get_state(); reward = get_reward()
DqnObserve(s, r) ==
    /\ pc = "dqn_observe"
    /\ UNCHANGED apiVars
    /\ state' = s
    /\ base_reward' = r
    /\ pc' = IF current_action # NoAction THEN "dqn_remember" ELSE "dqn_read"
    /\ DqnFrame
    /\ UNCHANGED <<step, current_action, prev_state, base_memory,
                   base_train_steps, base_epsilon, tls_state, tick,
                   hold_timer, action_ready>>

\* line 91: agent.remember(prev_state, current_action, reward, state, False)
DqnRemember ==
    /\ pc = "dqn_remember"
    /\ UNCHANGED apiVars
    /\ base_memory' = remember(base_memory, prev_state, current_action,
                               base_reward, state, FALSE, BaseMaxLen)
    /\ pc' = "dqn_replay"
    /\ DqnFrame
    /\ UNCHANGED <<step, current_action, prev_state, state, base_train_steps,
                   base_epsilon, tls_state, tick, hold_timer, action_ready,
                   base_reward>>

\* line 92: agent.replay(); when it raises, the except of line 108 prints
\* and the loop goes to its next tick
DqnReplay(raises) ==
    LET after == replay(base_memory, base_train_steps, base_epsilon,
                        BASE_BATCH_SIZE, BASE_EPSILON_MIN,
                        BASE_EPSILON_DECAY_DIV)
    IN  /\ pc = "dqn_replay"
        /\ UNCHANGED apiVars
        /\ raises => Len(base_memory) >= BASE_BATCH_SIZE
        /\ base_train_steps' = IF raises THEN base_train_steps
                               ELSE after.train_steps
        /\ base_epsilon' = IF raises THEN base_epsilon ELSE after.epsilon
        /\ pc' = IF raises THEN "dqn_tick" ELSE "dqn_read"
        /\ tick' = [tick EXCEPT !.replay = IF raises THEN "raised"
                                           ELSE "done"]
        /\ DqnFrame
        /\ UNCHANGED <<step, current_action, prev_state, state, base_memory,
                       tls_state, hold_timer, action_ready, base_reward>>

\* lines 94-95: current_action = next_action; action_to_phase[...] raises
\* KeyError on None
DqnRead ==
    /\ pc = "dqn_read"
    /\ UNCHANGED apiVars
    /\ current_action' = next_action
    /\ pc' = IF next_action \in Actions THEN "dqn_send" ELSE "dqn_tick"
    /\ DqnFrame
    /\ UNCHANGED <<step, prev_state, state, base_memory, base_train_steps,
                   base_epsilon, tls_state, tick, hold_timer, action_ready,
                   base_reward>>

\* line 98: setRedYellowGreenState(tls_id, phase), which may raise
DqnSend(raises) ==
    /\ pc = "dqn_send"
    /\ UNCHANGED apiVars
    /\ tls_state' = IF raises THEN tls_state
                    ELSE action_to_phase(current_action)
    /\ tick' = [tick EXCEPT !.switched = ~raises,
                            !.fault = IF raises THEN "ryg" ELSE "none",
                            !.sent = IF raises THEN "none"
                                     ELSE action_to_phase(current_action)]
    /\ pc' = IF raises THEN "dqn_tick" ELSE "dqn_reset"
    /\ DqnFrame
    /\ UNCHANGED <<step, current_action, prev_state, state, base_memory,
                   base_train_steps, base_epsilon, hold_timer, action_ready,
                   base_reward>>

\* lines 103-105: prev_state = state; hold_timer = 0.0; action_ready = False
DqnReset ==
    /\ pc = "dqn_reset"
    /\ UNCHANGED apiVars
    /\ prev_state' = state
    /\ hold_timer' = 0
    /\ action_ready' = FALSE
    /\ pc' = "dqn_start"
    /\ DqnFrame
    /\ UNCHANGED <<step, current_action, state, base_memory,
                   base_train_steps, base_epsilon, tls_state, tick,
                   base_reward>>

\* line 106: threading.Thread(target=compute_next_action).start()
DqnStart ==
    /\ pc = "dqn_start"
    /\ UNCHANGED apiVars
    /\ threads' = Append(threads, Thread("get_state", NoAction))
    /\ pc' = "dqn_tick"
    /\ UNCHANGED <<step, current_time, current_phase_start, current_action,
                   current_duration, actual_duration, prev_state, state,
                   episode_rewards, congestion_levels>>
    /\ UNCHANGED <<agentVars, tlsVars, tick, callVars>>
    /\ UNCHANGED <<hold_timer, next_action, action_ready, base_reward>>

\* getMinExpectedNumber() <= 0: the loop ends, finally closes the connection
DqnFinish ==
    /\ pc = "dqn_tick"
    /\ UNCHANGED apiVars
    /\ pc' = "closed"
    /\ UNCHANGED <<step, current_time, current_phase_start, current_action,
                   current_duration, actual_duration, prev_state, state,
                   episode_rewards, congestion_levels>>
    /\ UNCHANGED <<agentVars, tlsVars, tick, callVars, dqnVars,
                   apiVars>>

DqnLoopStep ==
    \/ DqnTick
    \/ \E s \in BaseObs, r \in BaseRewards : DqnObserve(s, r)
    \/ DqnRemember
    \/ \E raises \in BOOLEAN : DqnReplay(raises)
    \/ DqnRead
    \/ \E raises \in BOOLEAN : DqnSend(raises)
    \/ DqnReset
    \/ DqnStart
    \/ DqnFinish

NextDqn == DqnLoopStep \/ ThreadStep

SpecDqn == InitDqn /\ [][NextDqn]_vars

\* ------------------------------------------------ dashboard/main.py
\* The server: POST /api/start, POST /api/stop, POST
\* /api/traffic_light/mode and POST /api/traffic_light/control run in the
\* worker threads of the server, start_sumo in a daemon thread of its own.
\* A handler is one step; start_sumo is followed statement by statement
\* where it touches the globals.  call and ret describe the request
\* handled by the step just taken (NoCall, <<>> after a step of a thread).

\* Bound: start_sumo threads alive at the same time
MaxSimThreads == 2

\* setPhaseDuration(main_tl, 999)
MANUAL_DURATION == 999

\* the signal runs its own program: no pattern was sent, or
\* setProgram(main_tl, "0") restored it
AutoProgram == <<>>
AllRed == <<"r", "r", "r", "r">>

\* direction_map and state_map of control_traffic_light
direction_map == [north |-> 0, east |-> 1, south |-> 2, west |-> 3]
state_map == [red |-> "r", green |-> "G", yellow |-> "y"]

\* what the requests ask for: two of the directions and two of the states,
\* and one invalid value of each
Directions  == {"north", "east", "diagonal"}
LightStates == {"red", "green", "purple"}

\* which traci call of a handler raises (every one does while the
\* connection is closed)
ApiFaults == {"none", "ids", "ryg", "dur", "program", "verify"}

\* a start_sumo thread is active from the return of traci.start to the end
\* of the cleanup_sumo of its finally block
ActivePositions == {"set", "loop", "finally"}

ApiRequest(kind, direction, light, manual) ==
    [kind |-> kind, direction |-> direction, light |-> light,
     manual |-> manual]

\* cleanup_sumo: sumo_running = False first, then getTime / close inside
\* try-except-pass and the taskkill of the simulator processes
cleanup_sumo ==
    /\ sumo_running' = FALSE
    /\ connected' = FALSE

\* the pattern of manual_traffic_states[main_tl] with one direction set
pattern_with(pattern, direction, light) ==
    [pattern EXCEPT ![direction_map[direction] + 1] = state_map[light]]

InitApi ==
    /\ pc = "api"
    /\ step = 0
    /\ current_time = 0
    /\ current_phase_start = 0
    /\ current_action = NoAction
    /\ current_duration = 15
    /\ actual_duration = Unbound
    /\ prev_state = <<>>
    /\ state = <<>>
    /\ episode_rewards = <<>>
    /\ congestion_levels = <<>>
    /\ memory = <<>>
    /\ priority_memory = <<>>
    /\ performance_history = <<>>
    /\ congestion_history = <<>>
    /\ train_steps = 0
    /\ epsilon = EPSILON_START
    /\ base_memory = <<>>
    /\ base_train_steps = 0
    /\ base_epsilon = BASE_EPSILON_START
    /\ tls_state = AutoProgram
    /\ tls_duration = Unbound
    /\ tick = NoTick
    /\ call = NoCall
    /\ ret = <<>>
    /\ appended = <<>>
    /\ IdleDqn
    /\ IdleApi

\* what no step of the server touches
ApiFrame ==
    UNCHANGED <<loopVars, agentVars, tick, appended, dqnVars>>

\* POST /api/start: the flag is tested here and set by the thread later
StartSimulation ==
    /\ pc = "api"
    /\ sumo_running \/ Len(sim_threads) < MaxSimThreads
    /\ call' = ApiRequest("start", "none", "none", FALSE)
    /\ IF ~sumo_running
       THEN /\ sim_threads' = Append(sim_threads, "cleanup")
            /\ stopped' = FALSE
            /\ ret' = <<"message", FALSE>>
       ELSE /\ ret' = <<"already running", FALSE>>
            /\ UNCHANGED <<sim_threads, stopped>>
    /\ UNCHANGED <<sumo_running, traffic_light_manual_mode,
                   manual_traffic_states, connected, tlsVars>>
    /\ ApiFrame

\* POST /api/stop
StopSimulation ==
    /\ pc = "api"
    /\ call' = ApiRequest("stop", "none", "none", FALSE)
    /\ ret' = <<"message", FALSE>>
    /\ cleanup_sumo
    /\ stopped' = TRUE
    /\ UNCHANGED <<traffic_light_manual_mode, manual_traffic_states,
                   sim_threads, tlsVars>>
    /\ ApiFrame

\* the position p of thread i becomes q; a thread that is done is forgotten
Moved(i, q) ==
    IF q = "done"
    THEN SubSeq(sim_threads, 1, i - 1)
             \o SubSeq(sim_threads, i + 1, Len(sim_threads))
    ELSE [sim_threads EXCEPT ![i] = q]

\* start_sumo, line 88: cleanup_sumo() (then the sleep and the statistics)
SimCleanup(i) ==
    /\ pc = "api"
    /\ sim_threads[i] = "cleanup"
    /\ cleanup_sumo
    /\ sim_threads' = Moved(i, "start")
    /\ call' = NoCall
    /\ ret' = <<>>
    /\ UNCHANGED <<traffic_light_manual_mode, manual_traffic_states,
                   stopped, tlsVars>>
    /\ ApiFrame

\* traci.start: raises when the connection is already open, or when the
\* simulator cannot be started; the except and the finally follow
SimStart(i, raises) ==
    /\ pc = "api"
    /\ sim_threads[i] = "start"
    /\ IF connected \/ raises
       THEN /\ sim_threads' = Moved(i, "failed")
            /\ UNCHANGED connected
       ELSE /\ sim_threads' = Moved(i, "set")
            /\ connected' = TRUE
    /\ call' = NoCall
    /\ ret' = <<>>
    /\ UNCHANGED <<sumo_running, traffic_light_manual_mode,
                   manual_traffic_states, stopped, tlsVars>>
    /\ ApiFrame

\* sumo_running = True
SimSetRunning(i) ==
    /\ pc = "api"
    /\ sim_threads[i] = "set"
    /\ sumo_running' = TRUE
    /\ sim_threads' = Moved(i, "loop")
    /\ call' = NoCall
    /\ ret' = <<>>
    /\ UNCHANGED <<traffic_light_manual_mode, manual_traffic_states,
                   connected, stopped, tlsVars>>
    /\ ApiFrame

\* One test of the while condition and, when it holds, one iteration:
\* simulationStep, then the manual pattern is sent again while manual mode
\* is on (apply_manual_traffic_control).  drained: getMinExpectedNumber()
\* is 0; raises: a call of the iteration raises.
SimLoop(i, drained, raises) ==
    /\ pc = "api"
    /\ sim_threads[i] = "loop"
    /\ IF ~connected \/ raises \/ drained \/ ~sumo_running
       THEN /\ sim_threads' = Moved(i, "finally")
            /\ UNCHANGED tlsVars
       ELSE /\ UNCHANGED sim_threads
            /\ IF traffic_light_manual_mode /\ manual_traffic_states # <<>>
               THEN /\ tls_state' = manual_traffic_states
                    /\ tls_duration' = MANUAL_DURATION
               ELSE UNCHANGED tlsVars
    /\ call' = NoCall
    /\ ret' = <<>>
    /\ UNCHANGED <<sumo_running, traffic_light_manual_mode,
                   manual_traffic_states, connected, stopped>>
    /\ ApiFrame

\* finally: cleanup_sumo(), after the loop or after a failed traci.start
SimFinally(i) ==
    /\ pc = "api"
    /\ sim_threads[i] \in {"finally", "failed"}
    /\ cleanup_sumo
    /\ sim_threads' = Moved(i, "done")
    /\ call' = NoCall
    /\ ret' = <<>>
    /\ UNCHANGED <<traffic_light_manual_mode, manual_traffic_states,
                   stopped, tlsVars>>
    /\ ApiFrame

SimThreadStep ==
    \E i \in DOMAIN sim_threads :
        \/ SimCleanup(i)
        \/ \E raises \in BOOLEAN : SimStart(i, raises)
        \/ SimSetRunning(i)
        \/ \E drained \in BOOLEAN, raises \in BOOLEAN :
               SimLoop(i, drained, raises)
        \/ SimFinally(i)

\* POST /api/traffic_light/mode.  tl_found: getIDList() is not empty
SetTrafficLightMode(manual, tl_found, fault) ==
    LET refused == \/ ~sumo_running
                   \/ ~connected \/ fault = "ids"
                   \/ ~tl_found
        failed  == IF manual THEN fault \in {"ryg", "dur"}
                   ELSE fault = "program"
    IN  /\ pc = "api"
        /\ call' = ApiRequest("mode", "none", "none", manual)
        /\ ret' = <<IF refused \/ failed THEN "error" ELSE "message",
                    ~refused /\ manual /\ fault # "ryg">>
        /\ traffic_light_manual_mode' =
               IF refused THEN traffic_light_manual_mode
               ELSE manual /\ ~failed
        /\ manual_traffic_states' =
               IF refused THEN manual_traffic_states
               ELSE IF manual THEN AllRed
               ELSE <<>>
        /\ tls_state' =
               IF refused THEN tls_state
               ELSE IF manual
               THEN (IF fault = "ryg" THEN tls_state ELSE AllRed)
               ELSE (IF failed THEN tls_state ELSE AutoProgram)
        /\ tls_duration' =
               IF ~refused /\ manual /\ ~failed THEN MANUAL_DURATION
               ELSE tls_duration
        /\ UNCHANGED <<sumo_running, connected, sim_threads, stopped>>
        /\ ApiFrame

\* POST /api/traffic_light/control.  The dictionary is written before the
\* actuator; ret is the kind of response and whether a pattern was sent.
ControlTrafficLight(direction, light, tl_found, fault) ==
    LET refused == \/ ~sumo_running
                   \/ ~traffic_light_manual_mode
                   \/ ~connected \/ fault = "ids"
                   \/ ~tl_found
                   \/ direction \notin DOMAIN direction_map
                   \/ light \notin DOMAIN state_map
        current_state == IF manual_traffic_states = <<>> THEN AllRed
                         ELSE manual_traffic_states
        new_traffic_state == pattern_with(current_state, direction, light)
        failed == fault \in {"ryg", "dur", "verify"}
    IN  /\ pc = "api"
        /\ call' = ApiRequest("control", direction, light, FALSE)
        /\ ret' = <<IF refused \/ failed THEN "error" ELSE "success",
                    ~refused /\ fault # "ryg">>
        /\ manual_traffic_states' =
               IF refused THEN manual_traffic_states ELSE new_traffic_state
        /\ tls_state' = IF refused \/ fault = "ryg" THEN tls_state
                        ELSE new_traffic_state
        /\ tls_duration' = IF refused \/ fault \in {"ryg", "dur"}
                           THEN tls_duration
                           ELSE MANUAL_DURATION
        /\ UNCHANGED <<sumo_running, traffic_light_manual_mode, connected,
                       sim_threads, stopped>>
        /\ ApiFrame

NextApi ==
    \/ StartSimulation
    \/ StopSimulation
    \/ SimThreadStep
    \/ \E manual \in BOOLEAN, tl_found \in BOOLEAN, fault \in ApiFaults :
           SetTrafficLightMode(manual, tl_found, fault)
    \/ \E direction \in Directions, light \in LightStates,
          tl_found \in BOOLEAN, fault \in ApiFaults :
           ControlTrafficLight(direction, light, tl_found, fault)

SpecApi == InitApi /\ [][NextApi]_vars

\* ================================================================ claims

\* C1: every phase switch that ends an active phase happens when the time
\* since that phase began is at least MINIMUM_GREEN_TIME and at most
\* MAXIMUM_GREEN_TIME.
C1_GreenTimeBounds ==
    (tick.switched /\ tick.ended # NoAction) =>
        /\ tick.elapsed >= MINIMUM_GREEN_TIME
        /\ tick.elapsed <= MAXIMUM_GREEN_TIME

\* a phase that ran its full 45 seconds is ended
C1_Witness_MaxGreenSwitch ==
    /\ tick.switched
    /\ tick.ended # NoAction
    /\ tick.elapsed = MAXIMUM_GREEN_TIME

\* C2: a tick switches the phase exactly when no action was chosen yet or
\* elapsed >= min_green and (elapsed >= planned duration or elapsed >=
\* max_green), elapsed being the tick's time minus the phase start.
C2_SwitchIffEligible ==
    [][ (pc = "loop" /\ current_time' # current_time) =>
          LET elapsed == current_time' - current_phase_start
          IN  tick'.switched <=>
                \/ current_action = NoAction
                \/ /\ elapsed >= MINIMUM_GREEN_TIME
                   /\ \/ elapsed >= current_duration
                      \/ elapsed >= MAXIMUM_GREEN_TIME ]_vars

\* an active phase planned for 27 seconds is switched after 27 seconds
C2_Witness_PlannedSwitch ==
    /\ tick.switched
    /\ tick.ended # NoAction
    /\ tick.elapsed = 27
    /\ tick.elapsed > MINIMUM_GREEN_TIME
    /\ tick.elapsed < MAXIMUM_GREEN_TIME

\* C3: calculate_adaptive_duration returns a value in [min_time, max_time].
C3_DurationWithinBounds ==
    (call.kind = "duration" /\ ret # <<>>) =>
        /\ ret[1] >= call.min_time
        /\ ret[1] <= call.max_time

\* the low-traffic bucket with a default_time above max_time, fast flow
C3_Witness_DefaultAboveMax ==
    /\ call.kind = "duration"
    /\ ret # <<>>
    /\ call.default_time > call.max_time
    /\ TrafficOf(call.curr)[call.action + 1] = 100
    /\ SpeedsOf(call.curr)[call.action + 1] > 700
    /\ ret[1] = call.max_time

C5_ScenarioOverridesToNorth ==
    (/\ call.kind = "choose"
     /\ call.curr = ScenarioState
     /\ call.action = 1
     /\ ret # <<>>) => ret[1][1] = 0

\* C6: validate_action_choice returns the proposal when its traffic or
\* congestion exceeds the low-activity threshold, else the direction of
\* maximum traffic when that exceeds a smaller nonzero threshold, else the
\* direction of maximum congestion when above its threshold, else the
\* proposal; the result is one of the four actions.
C6_RuleOrderSmallerThreshold ==
    (call.kind = "validate" /\ ret # <<>>) =>
        LET traffic    == TrafficOf(call.curr)
            congestion == CongestionOf(call.curr)
            proposal   == call.action
            expected ==
                IF traffic[proposal + 1] > ACCEPT_TRAFFIC
                   \/ congestion[proposal + 1] > ACCEPT_CONGESTION
                THEN proposal
                ELSE IF traffic[argmax(traffic) + 1] > OVERRIDE_TRAFFIC
                THEN argmax(traffic)
                ELSE IF congestion[argmax(congestion) + 1]
                            > OVERRIDE_CONGESTION
                THEN argmax(congestion)
                ELSE proposal
        IN  /\ ret[1] = expected
            /\ ret[1] \in Actions
            /\ 0 < OVERRIDE_TRAFFIC
            /\ OVERRIDE_TRAFFIC < ACCEPT_TRAFFIC

\* C7: the pattern sent to the actuator at a switch is action_to_phase of
\* the action recorded as the current action of the new phase.
C7_PatternOfRecordedAction ==
    (tick.switched /\ tick.sent # "none") =>
        tick.sent = action_to_phase(current_action)

\* ---- the store: what the appends so far should have left in a buffer
LastN(q, n) ==
    IF Len(q) <= n THEN q ELSE SubSeq(q, Len(q) - n + 1, Len(q))

IsGeneral(e)  == e.via \in {"remember_priority", "remember"}
IsBase(e)     == e.via = "base_remember"
IsPriority(e) == e.via = "remember_priority"
                    /\ Abs(e.rec.reward) > PRIORITY_THRESHOLD

RecsOf(q) == [i \in 1 .. Len(q) |-> q[i].rec]

\* C8: each buffer holds at most its capacity, and exactly the most recent
\* records appended to it, in insertion order (the oldest evicted first).
C8_BuffersBoundedFifo ==
    /\ Len(memory) <= MemoryMaxLen
    /\ Len(priority_memory) <= PriorityMaxLen
    /\ Len(base_memory) <= BaseMaxLen
    /\ memory = LastN(RecsOf(SelectSeq(appended, IsGeneral)), MemoryMaxLen)
    /\ priority_memory =
           LastN(RecsOf(SelectSeq(appended, IsPriority)), PriorityMaxLen)
    /\ base_memory = LastN(RecsOf(SelectSeq(appended, IsBase)), BaseMaxLen)

\* both buffers of the enhanced agent have overflowed and evicted
C8_Witness_BothOverflowed ==
    /\ Len(SelectSeq(appended, IsGeneral)) > MemoryMaxLen
    /\ Len(memory) = MemoryMaxLen
    /\ Len(SelectSeq(appended, IsPriority)) > PriorityMaxLen
    /\ Len(priority_memory) = PriorityMaxLen
    /\ memory[1] # RecsOf(SelectSeq(appended, IsGeneral))[1]

\* C9: remember_priority always appends to the general buffer and appends
\* to the priority buffer exactly when |reward| > 2.0, so every record of
\* the priority buffer has |reward| > 2.0.
C9_PriorityOnlyHighReward ==
    /\ \A i \in 1 .. Len(priority_memory) :
           Abs(priority_memory[i].reward) > PRIORITY_THRESHOLD
    /\ (appended # <<>> /\ appended[Len(appended)].via = "remember_priority")
         => LET last == appended[Len(appended)].rec
            IN  /\ memory # <<>>
                /\ memory[Len(memory)] = last
                /\ (Abs(last.reward) > PRIORITY_THRESHOLD)
                     <=> (/\ priority_memory # <<>>
                          /\ priority_memory[Len(priority_memory)] = last)

\* a record with |reward| exactly 2.0 went to the general buffer only,
\* after a high-reward record had entered the priority buffer
C9_Witness_ThresholdRecordKeptOut ==
    /\ appended # <<>>
    /\ appended[Len(appended)].via = "remember_priority"
    /\ Abs(appended[Len(appended)].rec.reward) = PRIORITY_THRESHOLD
    /\ memory[Len(memory)] = appended[Len(appended)].rec
    /\ priority_memory # <<>>

\* C10: the total returned by calculate_smart_reward is the sum of the
\* clearance, congestion, efficiency, speed and congestion-penalty terms.
C10_RewardIsSumOfTerms ==
    (call.kind = "reward" /\ ret # <<>>) =>
        ret[1] = clearance_reward(call.prev, call.curr)
                 + congestion_reward(call.prev, call.curr)
                 + efficiency_reward(call.curr, call.action)
                 + speed_reward(call.curr)
                 + congestion_penalty(call.curr)

\* a reward to which all five terms contribute
C10_Witness_AllTermsNonzero ==
    /\ call.kind = "reward"
    /\ ret # <<>>
    /\ call.action = 0
    /\ clearance_reward(call.prev, call.curr) > 0
    /\ congestion_reward(call.prev, call.curr) > 0
    /\ efficiency_reward(call.curr, call.action) > 0
    /\ speed_reward(call.curr) > 0
    /\ congestion_penalty(call.curr) < 0

\* C11: every feature the Snapshot Normalizer returns lies in its declared
\* range: count, congestion ratio, mean speed, phase-time fraction and
\* emergency presence in [0, 1], junction pressure in [-1, 1].
C11_FeaturesInDeclaredRange ==
    (pc = "norm" /\ ret # <<>>) =>
        LET v == ret[1]
            Unit(i) == v[i] >= 0 /\ v[i] <= 1000
        IN  CASE call.kind = "traffic_state" -> \A i \in 1 .. 12 : Unit(i)
              [] call.kind = "enhanced_state" -> \A i \in 1 .. 16 : Unit(i)
              [] call.kind = "comprehensive_state" ->
                    /\ \A i \in 1 .. 16 : Unit(i)
                    /\ Len(v) = 19 =>
                          /\ v[17] >= -1000 /\ v[17] <= 1000
                          /\ Unit(18)
                          /\ Unit(19)
              [] OTHER -> TRUE

\* C12: a failing read never leaves the normalizer.  A vehicle whose
\* position or speed read raises is in no direction's count and in no
\* direction's speed list; a failing ID-list read gives twelve zeros; a
\* failing edge read gives zeros for the features of that edge.
C12_FailedReadsLeftOut ==
    (pc = "norm" /\ ret # <<>>) =>
        LET v == ret[1]
            Readable(x) == x.pos_ok /\ x.speed_ok
            InArea(area) ==
                {i \in DOMAIN call.vehicles :
                    /\ Readable(call.vehicles[i])
                    /\ area_of(call.vehicles[i]) = area}
            AreaAt(k) == <<"north", "south", "east", "west">>[k]
        IN  CASE call.kind = "traffic_state" ->
                    IF ~call.list_ok
                    THEN v = <<0, 0, 0, 0, 0, 0, 0, 0, 0, 0, 0, 0>>
                    ELSE /\ v = get_correct_traffic_state(
                                    SelectSeq(call.vehicles, Readable), TRUE)
                         /\ \A k \in 1 .. 4 :
                               v[3 * k - 2] =
                                   Min(Cardinality(InArea(AreaAt(k))) * 100,
                                       1000)
              [] call.kind = "get_state" ->
                    /\ Len(v) = 8
                    /\ \A k \in 1 .. 4 : ~call.reads[k].ok =>
                          v[2 * k - 1] = 0 /\ v[2 * k] = 0
              [] call.kind \in {"enhanced_state", "comprehensive_state"} ->
                    /\ Len(v) >= 16
                    /\ \A k \in 1 .. 4 : ~call.reads[k].ok =>
                          \A j \in 4 * k - 3 .. 4 * k : v[j] = 0
              [] OTHER -> TRUE

\* two vehicles in the south, the speed read of one of them raised: the
\* south count is one vehicle
C12_Witness_FailedVehicleSkipped ==
    /\ pc = "norm"
    /\ ret # <<>>
    /\ call.kind = "traffic_state"
    /\ call.list_ok
    /\ \E i \in DOMAIN call.vehicles, j \in DOMAIN call.vehicles :
          /\ ~call.vehicles[i].speed_ok
          /\ area_of(call.vehicles[i]) = "south"
          /\ call.vehicles[j].pos_ok /\ call.vehicles[j].speed_ok
          /\ area_of(call.vehicles[j]) = "south"
    /\ ret[1][4] = 100

\* C13: the exploration rate never increases over any sequence of act,
\* remember, remember_priority, replay and enhanced_replay calls.  A call
\* that completes a training step multiplies it by the decay factor when it
\* is above the floor and leaves it alone otherwise; every other call leaves
\* it alone.
C13_EpsilonNeverIncreases ==
    [][ pc = "agent" =>
          /\ epsilon' <= epsilon
          /\ base_epsilon' <= base_epsilon
          /\ epsilon' =
                IF train_steps' # train_steps /\ epsilon > EPSILON_MIN
                THEN epsilon - epsilon \div EPSILON_DECAY_DIV
                ELSE epsilon
          /\ base_epsilon' =
                IF base_train_steps' # base_train_steps
                   /\ base_epsilon > BASE_EPSILON_MIN
                THEN base_epsilon - base_epsilon \div BASE_EPSILON_DECAY_DIV
                ELSE base_epsilon
          /\ (train_steps' # train_steps
                 \/ base_train_steps' # base_train_steps) =>
                /\ ret'[1] \in {"replay", "enhanced_replay"}
                /\ ret'[3] ]_vars

\* a training step completed with the exploration rate already at or below
\* the floor, and left it where it was
C13_Witness_TrainedAtFloor ==
    /\ pc = "agent"
    /\ ret # <<>>
    /\ ret[1] = "replay"
    /\ ret[3]
    /\ ret[2] <= BASE_EPSILON_MIN
    /\ base_epsilon = ret[2]
    /\ base_train_steps > 0

\* C14: a tick of run_enhanced_dqn_simulation that does not switch the
\* phase leaves the phase record (action, duration, start), prev_state,
\* both buffers, the exploration rate and the policy parameters unchanged
\* and sends nothing to the actuator.
C14_HoldTickChangesNothing ==
    [][ (pc = "loop" /\ current_time' # current_time /\ ~tick'.switched) =>
          /\ UNCHANGED <<current_action, current_duration,
                         current_phase_start, prev_state>>
          /\ UNCHANGED <<memory, priority_memory, epsilon, train_steps>>
          /\ UNCHANGED <<tls_state, tls_duration>>
          /\ tick'.sent = "none"
          /\ tick'.sent_duration = Unbound ]_vars

\* a tick inside a phase, with a transition already in the buffer and a
\* pattern already on the signal
C14_Witness_HoldAfterStore ==
    /\ pc = "loop"
    /\ ~tick.switched
    /\ current_time > tick.began
    /\ current_action # NoAction
    /\ Len(memory) > 0
    /\ tls_state # "program"

C19_ActFailureKeepsLoopRunning ==
    [][ (pc = "loop" /\ tick'.switched /\ tick'.fault = "act") =>
          /\ pc' = "loop"
          /\ current_action' = 0
          /\ epsilon' = epsilon ]_vars

\* C20: a failure raised by the training step (enhanced_replay) never ends
\* the control loop: the ticks and switches after it still run.
C20_ReplayFailureKeepsLoopRunning ==
    [][ (pc = "loop" /\ tick'.switched /\ tick'.replay = "raised") =>
          pc' = "loop" ]_vars

\* C16: in run_dqn_simulation, a tick at which the hold timer has reached
\* 3.0 s while the speculative computation has not finished computes the
\* action synchronously and switches on that tick instead of waiting.
C16_SynchronousFallback ==
    [][ (pc = "dqn_tick" /\ step' = step + 1
            /\ hold_timer' >= HOLD_TICKS /\ ~action_ready) =>
          pc' = "dqn_observe" ]_vars

\* C17: in run_dqn_simulation, under every interleaving, the action
\* committed at a switch is the value written by a computation that has
\* completed, and no computation writes next_action or action_ready between
\* the loop's read of next_action and its actuator command.
C17_CommitsCompletedComputation ==
    /\ [][ pc = "dqn_send" =>
             /\ UNCHANGED <<next_action, action_ready>>
             /\ pc' = "dqn_reset" =>
                   tls_state' = action_to_phase(ret[1]) ]_vars
    /\ [](pc = "dqn_send" =>
             /\ ret # <<>>
             /\ current_action = ret[1]
             /\ next_action = ret[1])

\* the second switch sent the pattern of the action the second computation
\* returned
C17_Witness_SecondSwitchCommitted ==
    /\ pc = "dqn_reset"
    /\ tick.switched
    /\ ret # <<>>
    /\ tick.sent = action_to_phase(ret[1])
    /\ base_memory # <<>>

\* C18: in run_dqn_simulation at most one compute_next_action thread is in
\* flight at any time, and the loop neither stores a transition
\* (agent.remember) nor trains (agent.replay) while an agent.act of such a
\* thread is in flight.
C18_OneThreadNoTrainingDuringAct ==
    /\ Len(threads) <= 1
    /\ pc \in {"dqn_remember", "dqn_replay"} =>
          \A i \in DOMAIN threads : threads[i].pc # "act"

\* the loop is about to train on the transition it just stored, and no
\* computation runs
C18_Witness_TrainingWithoutThread ==
    /\ pc = "dqn_replay"
    /\ base_memory # <<>>
    /\ threads = <<>>
    /\ action_ready

\* C21: a failed actuator write (setRedYellowGreenState or setPhaseDuration)
\* at a phase switch, the first switch included, never ends the control
\* loop: the switch step completes and the loop goes on with later ticks.
C21_ActuatorFailureRecovered ==
    [][ (pc = "loop" /\ tick'.switched /\ tick'.fault \in {"ryg", "dur"}
           /\ tick'.replay # "raised") =>
          pc' = "loop" ]_vars

\* C22: an exception raised by traci.close() when the control loop has ended
\* is swallowed: it does not reach the caller of run_enhanced_dqn_simulation
\* and the policy parameters are still saved (or the failed save is logged).
C22_CloseFailureSwallowed ==
    [][ pc = "closed" => pc' \in {"saved", "returned"} ]_vars

\* C23: when the connection is lost at the loop head or the simulator
\* reports no more expected vehicles, the control loop ends there: the
\* shutdown step is entered, and afterwards no tick runs, the failed call is
\* not tried again and no actuator write is made.
C23_LoopEndsWithoutRetry ==
    /\ [][ (pc = "loop" /\ tick'.fault \in LoopEnds) => pc' = "closed" ]_vars
    /\ [][ pc # "loop" =>
             /\ pc' # "loop"
             /\ step' <= step
             /\ current_time' <= current_time
             /\ UNCHANGED <<tlsVars, agentVars>> ]_vars

\* the connection was lost after some switches and the loop has ended
C23_Witness_LostAfterSwitches ==
    /\ pc = "closed"
    /\ tick.fault = "lost"
    /\ step >= 2
    /\ memory # <<>>

\* C24: a training call made while the memory holds fewer records than the
\* call needs (replay and enhanced_replay: fewer than batch_size; the
\* training statement of the control loop: no more than the minimum fill)
\* returns without error and changes neither the training count, nor the
\* exploration rate, nor any buffer.
C24_TrainingSkippedBelowFill ==
    [][ (pc = "agent" /\
         \/ /\ ret'[1] \in {"replay", "enhanced_replay"}
            /\ Len(IF call.class = "DQNAgent" THEN base_memory ELSE memory)
                 < ret'[4]
         \/ /\ Len(memory) <= TRAIN_MIN_FILL
            /\ ret'[1] = "no_training") =>
          /\ ret'[3]
          /\ UNCHANGED agentVars ]_vars

\* enhanced_replay was asked for a batch larger than the one record held
C24_Witness_SkippedWithRecords ==
    /\ pc = "agent"
    /\ ret # <<>>
    /\ ret[1] = "enhanced_replay"
    /\ ret[3]
    /\ memory # <<>>
    /\ Len(memory) < ret[4]
    /\ epsilon = ret[2]
    /\ train_steps = 0

\* C25: at every tick of the control loop a training step runs exactly when
\* the memory then holds more than the minimum fill, whether or not the
\* tick switches the phase.
C25_TrainingIndependentOfSwitch ==
    [][ (pc = "loop" /\ pc' = "loop" /\ step' = step + 1) =>
          ((train_steps' = train_steps + 1) <=>
               Len(memory') > TRAIN_MIN_FILL) ]_vars

\* C26: calculate_adaptive_duration takes its base duration from the bucket
\* of the chosen direction (very high traffic or congestion: max_time; high:
\* the midpoint of min_time and max_time; moderate: default_time; low or
\* none: min_time), so with a speed that calls for no adjustment (neither
\* high, nor low with traffic) the result is that base clamped to
\* [min_time, max_time]; and in the very-high bucket
\* with a speed that is not high the result is exactly max_time.
C26_BaseDurationByBucket ==
    (call.kind = "duration" /\ ret # <<>>) =>
        LET t  == TrafficOf(call.curr)[call.action + 1]
            c  == CongestionOf(call.curr)[call.action + 1]
            sp == SpeedsOf(call.curr)[call.action + 1]
            very_high == t > 700 \/ c > 600
            high      == ~very_high /\ (t > 300 \/ c > 300)
            moderate  == ~very_high /\ ~high /\ t > 50
            plain     == sp <= 700 /\ (sp >= 300 \/ t = 0)
            clamp(v)  == Max(call.min_time, Min(v, call.max_time))
        IN  /\ (very_high /\ sp <= 700) => ret[1] = call.max_time
            /\ (high /\ plain) =>
                   ret[1] = clamp((call.min_time + call.max_time) \div 2)
            /\ (moderate /\ plain) => ret[1] = clamp(call.default_time)
            /\ (~very_high /\ ~high /\ ~moderate /\ plain) =>
                   ret[1] = call.min_time

\* the scenario: traffic 0.9, congestion 0.8, speed 0.2, min 10, max 45
C26_Witness_ScenarioGives45 ==
    /\ call.kind = "duration"
    /\ ret # <<>>
    /\ call.action = 0
    /\ call.curr[1] = 900 /\ call.curr[2] = 800 /\ call.curr[3] = 200
    /\ call.min_time = 10
    /\ call.max_time = 45
    /\ ret[1] = 45

\* C27: calculate_adaptive_duration scales the base duration by 0.8 when the
\* chosen direction's speed is high, by 1.2 when its speed is low and its
\* traffic is not zero (one vehicle, traffic 0.1, included), and clamps the
\* result to [min_time, max_time].
C27_SpeedScaling ==
    (call.kind = "duration" /\ ret # <<>>) =>
        LET t    == TrafficOf(call.curr)[call.action + 1]
            c    == CongestionOf(call.curr)[call.action + 1]
            sp   == SpeedsOf(call.curr)[call.action + 1]
            base == bucket_duration(t, c, call.min_time, call.max_time,
                                    call.default_time)
            scaled == IF sp > 700 THEN IntTenths(base, 8)
                      ELSE IF sp < 300 /\ t > 0 THEN IntTenths(base, 12)
                      ELSE base
        IN  ret[1] = Max(call.min_time, Min(scaled, call.max_time))

\* C28: when total traffic and total congestion both strictly decrease from
\* the previous state to the current one, the clearance term and the
\* congestion term of calculate_smart_reward are both positive; and when
\* total congestion drops from 3.0 to 1.0 and total traffic from 5.0 to 3.0
\* the returned reward is positive, whatever the action and the speeds.
C28_DecreaseIsRewarded ==
    (call.kind = "reward" /\ ret # <<>>) =>
        LET pt == Sum4(TrafficOf(call.prev))
            ct == Sum4(TrafficOf(call.curr))
            pg == Sum4(CongestionOf(call.prev))
            cg == Sum4(CongestionOf(call.curr))
        IN  /\ (pt > ct /\ pg > cg) =>
                 /\ clearance_reward(call.prev, call.curr) > 0
                 /\ congestion_reward(call.prev, call.curr) > 0
                 /\ ret[1] - efficiency_reward(call.curr, call.action)
                      - speed_reward(call.curr)
                      - congestion_penalty(call.curr) > 0
            /\ (pt = 5000 /\ ct = 3000 /\ pg = 3000 /\ cg = 1000) =>
                 ret[1] > 0

\* the scenario at its worst: the acted approach is empty (efficiency -1.0)
\* and nothing moves (speed term 0); the reward is 10 + 6 - 1 + 0 - 2 = 13
C28_Witness_ScenarioWorstCase ==
    /\ call.kind = "reward"
    /\ ret # <<>>
    /\ call.prev = RewardScenarioPrev
    /\ call.action = 3
    /\ efficiency_reward(call.curr, call.action) = -2000
    /\ speed_reward(call.curr) = 0
    /\ ret[1] = 26000

\* C29: the congestion term of the reward the control loop uses weights a
\* reduction of total congestion more heavily than an increase of the same
\* size: the term of a transition that reduces congestion is larger in
\* absolute value than the term of the reverse transition.
C29_ReductionWeighsMore ==
    (call.kind = "reward" /\ ret # <<>>
       /\ Sum4(CongestionOf(call.prev)) > Sum4(CongestionOf(call.curr))) =>
        /\ ret[1] = calculate_smart_reward(call.prev, call.curr, call.action)
        /\ Abs(congestion_reward(call.prev, call.curr))
             > Abs(congestion_reward(call.curr, call.prev))

\* C30: the efficiency term of the reward is one of two fixed values, the
\* bonus or the penalty, and it is the one that the acted direction's
\* traffic and congestion in the previous state (the state at decision
\* time) select, not the one the current state selects.
C30_EfficiencyFromDecisionState ==
    (call.kind = "reward" /\ ret # <<>>) =>
        LET term == ret[1] - clearance_reward(call.prev, call.curr)
                           - congestion_reward(call.prev, call.curr)
                           - speed_reward(call.curr)
                           - congestion_penalty(call.curr)
        IN  /\ term \in {4000, -2000}
            /\ term = efficiency_reward(call.prev, call.action)

C32_FixedLengthPerNormalizer ==
    (pc = "norm" /\ ret # <<>>) =>
        Len(ret[1]) = CASE call.kind = "comprehensive_state" -> 19
                        [] call.kind = "enhanced_state" -> 16
                        [] call.kind = "traffic_state" -> 12
                        [] call.kind = "get_state" -> 8

\* C33: the total congestion recorded with a stored transition is the sum of
\* the four congestion features of the 12-feature state that was stored
\* (indices 1, 4, 7, 10), and congestion_history gains one entry with every
\* remember_priority call, as performance_history does.
C33_CongestionSummedOverOwnLayout ==
    (pc \in {"loop", "closed"} /\ memory # <<>>) =>
        /\ congestion_history # <<>>
        /\ Len(congestion_history) = Len(performance_history)
        /\ congestion_history[Len(congestion_history)] =
               Sum4(CongestionOf(memory[Len(memory)].state))

\* C34: the exploration rate never drops below its floor: after any number
\* of training steps epsilon >= epsilon_min, for the enhanced agent (floor
\* 0.05) and for the base agent (floor 0.01).
C34_EpsilonNotBelowFloor ==
    pc = "agent" =>
        /\ epsilon >= EPSILON_MIN
        /\ base_epsilon >= BASE_EPSILON_MIN

\* C35: in run_enhanced_dqn_simulation the first phase switch stores no
\* transition and every later one stores exactly one: after k switches the
\* general buffer has received k - 1 transitions and the priority buffer at
\* most k - 1 (no record is evicted within the run lengths checked).
C35_OneTransitionPerLaterSwitch ==
    (pc \in {"loop", "closed"}) =>
        IF tick.switches = 0
        THEN memory = <<>> /\ priority_memory = <<>> /\ episode_rewards = <<>>
        ELSE /\ Len(episode_rewards) = tick.switches - 1
             /\ Len(memory) = Min(tick.switches - 1, MemoryMaxLen)
             /\ Len(priority_memory) <= tick.switches - 1

\* two switches have run and the one transition between them is stored in
\* the general buffer only
C35_Witness_SecondSwitchStoredOne ==
    /\ pc = "loop"
    /\ tick.switches = 2
    /\ Len(memory) = 1
    /\ priority_memory = <<>>

\* C36: after every phase switch that leaves the loop running, the
\* committed duration current_duration is the duration scheduled at that
\* switch raised to at least MINIMUM_GREEN_TIME, never one left over from an
\* earlier phase, also when the actuator write of that switch failed.
C36_CommittedDurationIsThisSwitch ==
    [][ (pc = "loop" /\ tick'.switched /\ pc' = "loop") =>
          \E dqn \in Actions :
              LET chosen == choose_intelligent_action_and_duration(dqn,
                                state', MINIMUM_GREEN_TIME,
                                MAXIMUM_GREEN_TIME, DEFAULT_GREEN_TIME)
              IN  /\ current_action' = chosen[1]
                  /\ current_duration' = Max(chosen[2], MINIMUM_GREEN_TIME) ]_vars

\* C37: for any interleaving of POST /api/start and POST /api/stop, at
\* most one start_sumo thread is active (between the start of the
\* simulator and the end of its cleanup) at any time.
C37_AtMostOneActiveSimulationThread ==
    pc = "api" =>
        Cardinality({i \in DOMAIN sim_threads :
                        sim_threads[i] \in ActivePositions}) <= 1

\* C38: after POST /api/stop has returned, sumo_running stays False until
\* the next POST /api/start is accepted, whatever a running or
\* just-started start_sumo thread does in between.
C38_StoppedStaysStopped ==
    (pc = "api" /\ stopped) => ~sumo_running

\* C39: control_traffic_light changes manual_traffic_states and sends
\* actuator commands only when the simulation is running, manual mode is
\* on and the direction and the state are valid; when it answers with an
\* error, manual_traffic_states is what it was before the call.
C39_ControlOnlyWhenValid ==
    [][(pc = "api" /\ call'.kind = "control") =>
          /\ (manual_traffic_states' # manual_traffic_states \/ ret'[2]) =>
                 /\ sumo_running
                 /\ traffic_light_manual_mode
                 /\ call'.direction \in DOMAIN direction_map
                 /\ call'.light \in DOMAIN state_map
          /\ ret'[1] = "error" =>
                 manual_traffic_states' = manual_traffic_states]_vars

====
